---- MODULE Spec2Model ----
(***************************************************************************)
(* Model of the achievement viewer's data reconciliation and comparison   *)
(* engine: the loader (GameLoader, src/unnamed/part_000) that builds the   *)
(* gamesData collection, and the comparator (src/js/GameCompare.js).       *)
(***************************************************************************)
EXTENDS Integers, Sequences, FiniteSets, TLC

VARIABLES
    server,      \* the page owner's repository: one record per game (payload + game-info)
    loadPath,    \* "appIds" (per-AppID files) or "data" (combined game-data.json)
    i,           \* position of the load loop in the list of games (1-based)
    gamesData,   \* the Map appId -> game, as a sequence in insertion order
    visitor,     \* the visitor's repository file for the compared game
    ownData,     \* result of loadOwnGameData: [loaded, isNull, achievementsData, blacklist]
    comparison,  \* result of compareAchievements: [done, appId, hasData, comparison]
    stats,       \* result of getComparisonStats: [done, bothUnlocked, ...]
    localStorage, \* the browser's localStorage: key -> string, "" for no item
    dataServer,  \* the game-data.json the owner's repository serves now
    load,        \* the running or last call of loadGameDataWithCache
    person,      \* the hub's figures for one user, set by its loadGameData
    summary,     \* the totals displayGames shows on the profile page
    location,    \* the page's URL: [vs, game] and the page owner
    currentGameData, \* window.currentGameData
    detailView,  \* the element detail-view: whether active, and what it shows
    calls,       \* the calls of enableCompareMode that await loadOwnGameData
    comparisonCache, \* the Map of GameCompare: key -> "absent", "null" or "data"
    session,     \* what the calls of loadOwnGameData did so far in the session
    forksCache,  \* the localStorage item 'forks-cache-v1' of the hub
    forksRun,    \* the running or last call of fetchAllForks
    pass         \* the fetches of the pass of loadGamesFromAppIds: [step, inFlight]

vars == <<server, loadPath, i, gamesData, visitor, ownData, comparison, stats,
          localStorage, dataServer, load, person, summary,
          location, currentGameData, detailView, calls, comparisonCache, session,
          forksCache, forksRun, pass>>

\* the state of the fetches of the aggregation pass
passVars == <<pass>>

\* the state of the hub's fork list
forkVars == <<forksCache, forksRun>>

\* the state of the detail view and of the comparison memo
detailVars == <<location, currentGameData, detailView, calls, comparisonCache, session>>

\* the state of the hub and of the profile page's summary
hubVars == <<person, summary>>

\* the state outside the loader, the comparison and the cache
restVars == <<hubVars, detailVars, forkVars, passVars>>

\* the state of the cache loader
cacheVars == <<localStorage, dataServer, load>>

\* the state of the aggregation and of the comparison
viewVars == <<server, loadPath, i, gamesData, visitor, ownData, comparison, stats>>

----------------------------------------------------------------------------
(* Bounds *)

\* largest number of entries in one achievement payload (array or mapping)
MaxLen == 2

\* number of successive versions of game-data.json the repository serves
MaxVersions == 2

----------------------------------------------------------------------------
(* JavaScript values: type tag, numeric payload, string payload *)

Undefined == [t |-> "undefined", n |-> 0, s |-> ""]
Null == [t |-> "null", n |-> 0, s |-> ""]
JsTrue == [t |-> "boolean", n |-> 1, s |-> ""]
JsFalse == [t |-> "boolean", n |-> 0, s |-> ""]
Num(k) == [t |-> "number", n |-> k, s |-> ""]
Str(x) == [t |-> "string", n |-> 0, s |-> x]
Bool(b) == IF b THEN JsTrue ELSE JsFalse

\* ToBoolean
Truthy(v) ==
    CASE v.t = "boolean" -> v.n = 1
      [] v.t = "number" -> v.n # 0
      [] v.t = "string" -> v.s # ""
      [] OTHER -> FALSE

\* a || b : the first operand if it is truthy, else the second
Or(a, b) == IF Truthy(a) THEN a ELSE b

\* String(v) for the values an appid takes
String(v) == IF v.t = "number" THEN ToString(v.n) ELSE v.s

----------------------------------------------------------------------------
(* JavaScript objects found in the payloads.  An achievement entry (of a   *)
(* legacy array, of a keyed save mapping, or of a schema) is a record of   *)
(* the fields the code reads; an absent field is Undefined.                *)

NoFields ==
    [apiname |-> Undefined, achieved |-> Undefined, unlocktime |-> Undefined,
     earned |-> Undefined, unlocked |-> Undefined,
     earned_time |-> Undefined, unlock_time |-> Undefined,
     name |-> Undefined, displayName |-> Undefined,
     description |-> Undefined, desc |-> Undefined, hidden |-> Undefined,
     icon |-> Undefined, icongray |-> Undefined, icon_gray |-> Undefined,
     percent |-> Undefined, group |-> Undefined]

\* A JSON array or object: its own properties in for-in order.  For an array
\* the keys are the indices "0", "1", ...  wrapped = TRUE is the object
\* {achievements: <this value>}.
Obj(kind, wrapped, props) == [kind |-> kind, wrapped |-> wrapped, props |-> props]

EmptyObject == Obj("object", FALSE, <<>>)

\* the array [v1, ..., vn]
ArrayOf(vals) == Obj("array", FALSE, [j \in 1..Len(vals) |-> [key |-> ToString(j - 1), val |-> vals[j]]])

IsArray(o) == o.kind = "array" /\ ~o.wrapped

RECURSIVE IndexOf(_, _, _)
\* position of key k in props at or after position j, 0 when absent
IndexOf(props, k, j) ==
    IF j > Len(props) THEN 0
    ELSE IF props[j].key = k THEN j
    ELSE IndexOf(props, k, j + 1)

\* o[k] is defined (an entry object, hence truthy)
Has(o, k) == ~o.wrapped /\ IndexOf(o.props, k, 1) # 0

\* o[k], for a key that o has
Get(o, k) == o.props[IndexOf(o.props, k, 1)].val

\* converted[k] = v : an existing key keeps its position, a new key goes last
SetProp(props, k, v) ==
    LET p == IndexOf(props, k, 1)
    IN  IF p = 0 THEN Append(props, [key |-> k, val |-> v])
        ELSE [props EXCEPT ![p] = [key |-> k, val |-> v]]

\* achievementsData.achievements || achievementsData
Unwrap(o) == IF o.wrapped THEN Obj(o.kind, FALSE, o.props) ELSE o

\* blacklist.includes(key)
Includes(list, k) == \E j \in 1..Len(list) : list[j] = k

----------------------------------------------------------------------------
(* GameLoader: conversion of the legacy array format *)

RECURSIVE ConvertFrom(_, _, _)
\* the loop "for (const ach of achievementsData)" from position j on
ConvertFrom(props, j, converted) ==
    IF j > Len(props) THEN converted
    ELSE LET ach == props[j].val
         IN  ConvertFrom(props, j + 1,
                 IF Truthy(ach.apiname)
                 THEN SetProp(converted, String(ach.apiname),
                          [NoFields EXCEPT !.earned = Bool(ach.achieved = Num(1)),
                                           !.earned_time = Or(ach.unlocktime, Num(0))])
                 ELSE converted)

\* achievementsData after "if (Array.isArray(achievementsData)) { ... }"
ConvertLegacy(achievementsData) ==
    IF IsArray(achievementsData)
    THEN Obj("object", FALSE, ConvertFrom(achievementsData.props, 1, <<>>))
    ELSE achievementsData

----------------------------------------------------------------------------
(* GameLoader: processGameData *)

\* gameInfo === null (also the default of an undefined argument)
NullInfo ==
    [isNull |-> TRUE, name |-> Undefined, icon |-> Undefined, uses_db |-> Undefined,
     platform |-> Undefined, hasBlacklist |-> FALSE, blacklist |-> <<>>,
     hasAchievements |-> FALSE, achievements |-> <<>>]

\* gameInfo?.blacklist || []
BlacklistOf(gameInfo) == IF gameInfo.hasBlacklist THEN gameInfo.blacklist ELSE <<>>

\* the condition "gameInfo && gameInfo.achievements": an object, even {}, is truthy
SchemaDriven(gameInfo) == ~gameInfo.isNull /\ gameInfo.hasAchievements

\* userAch ? (userAch.earned || userAch.unlocked || userAch.achieved || false) : false
UnlockedOf(has, userAch) ==
    IF has THEN Or(Or(Or(userAch.earned, userAch.unlocked), userAch.achieved), JsFalse)
    ELSE JsFalse

\* userAch ? (userAch.earned_time || userAch.unlock_time || userAch.unlocktime || 0) : 0
UnlockTimeOf(has, userAch) ==
    IF has THEN Or(Or(Or(userAch.earned_time, userAch.unlock_time), userAch.unlocktime), Num(0))
    ELSE Num(0)

\* the record pushed in schema-driven mode
SchemaAchievement(key, achInfo, achData) ==
    LET has == Has(achData, key)
        userAch == IF has THEN Get(achData, key) ELSE NoFields
    IN  [apiname |-> key,
         name |-> Or(achInfo.name, Str(key)),
         description |-> Or(achInfo.description, Str("")),
         hidden |-> Or(achInfo.hidden, JsFalse),
         icon |-> Or(achInfo.icon, Str("")),
         icongray |-> Or(Or(achInfo.icongray, achInfo.icon), Str("")),
         unlocked |-> UnlockedOf(has, userAch),
         unlocktime |-> UnlockTimeOf(has, userAch),
         rarity |-> Or(achInfo.percent, Null),
         group |-> Or(achInfo.group, Null)]

\* SaveAchievement with rarity and group fixed to null
SaveAchievementNoOwnFields(key, ach) ==
    [apiname |-> key,
     name |-> Or(Or(ach.name, ach.displayName), Str(key)),
     description |-> Or(Or(ach.description, ach.desc), Str("")),
     hidden |-> Or(ach.hidden, JsFalse),
     icon |-> Or(ach.icon, Str("")),
     icongray |-> Or(Or(Or(ach.icongray, ach.icon_gray), ach.icon), Str("")),
     unlocked |-> UnlockedOf(TRUE, ach),
     unlocktime |-> UnlockTimeOf(TRUE, ach),
     rarity |-> Null,
     group |-> Null]

\* the record pushed in save-driven mode
SaveAchievement(key, ach) ==
    [apiname |-> key,
     name |-> Or(Or(ach.name, ach.displayName), Str(key)),
     description |-> Or(Or(ach.description, ach.desc), Str("")),
     hidden |-> Or(ach.hidden, JsFalse),
     icon |-> Or(ach.icon, Str("")),
     icongray |-> Or(Or(Or(ach.icongray, ach.icon_gray), ach.icon), Str("")),
     unlocked |-> UnlockedOf(TRUE, ach),
     unlocktime |-> UnlockTimeOf(TRUE, ach),
     rarity |-> Or(ach.percent, Null),
     group |-> Or(ach.group, Null)]

RECURSIVE SchemaLoop(_, _, _, _, _)
\* "for (let key in gameInfo.achievements)" from position j on
SchemaLoop(schema, j, achData, blacklist, achievements) ==
    IF j > Len(schema) THEN achievements
    ELSE SchemaLoop(schema, j + 1, achData, blacklist,
             IF Includes(blacklist, schema[j].key) THEN achievements
             ELSE Append(achievements, SchemaAchievement(schema[j].key, schema[j].val, achData)))

RECURSIVE SaveLoopNoBlacklist(_, _, _, _)
\* SaveLoop with the blacklist test left out of the save-driven branch
SaveLoopNoBlacklist(props, j, blacklist, achievements) ==
    IF j > Len(props) THEN achievements
    ELSE SaveLoopNoBlacklist(props, j + 1, blacklist,
             Append(achievements, SaveAchievement(props[j].key, props[j].val)))

RECURSIVE SaveLoop(_, _, _, _)
\* "for (let key in achData)" from position j on
SaveLoop(props, j, blacklist, achievements) ==
    IF j > Len(props) THEN achievements
    ELSE SaveLoop(props, j + 1, blacklist,
             IF Includes(blacklist, props[j].key) THEN achievements
             ELSE Append(achievements, SaveAchievement(props[j].key, props[j].val)))

\* the achievements array built by processGameData
BuildAchievements(achievementsData, gameInfo) ==
    LET achData == Unwrap(achievementsData)
        blacklist == BlacklistOf(gameInfo)
    IN  IF SchemaDriven(gameInfo)
        THEN SchemaLoop(gameInfo.achievements, 1, achData, blacklist, <<>>)
        ELSE SaveLoop(achData.props, 1, blacklist, <<>>)

\* the record stored by gamesData.set
GameRecord(appId, achievementsData, gameInfo) ==
    [appId |-> appId,
     name |-> Or(gameInfo.name, Str("Game " \o appId)),
     icon |-> Or(gameInfo.icon, Str("")),
     achievements |-> BuildAchievements(achievementsData, gameInfo),
     usesDb |-> Or(gameInfo.uses_db, JsFalse),
     platform |-> Or(gameInfo.platform, Null)]

RECURSIVE MapIndex(_, _, _)
\* position of the entry with key appId in the Map, 0 when absent
MapIndex(map, appId, j) ==
    IF j > Len(map) THEN 0
    ELSE IF map[j].appId = appId THEN j
    ELSE MapIndex(map, appId, j + 1)

MapSetAlwaysAppends(map, appId, game) == Append(map, game)

\* Map.prototype.set: an existing key keeps its insertion position
MapSet(map, appId, game) ==
    LET p == MapIndex(map, appId, 1)
    IN  IF p = 0 THEN Append(map, game) ELSE [map EXCEPT ![p] = game]

MapGet(map, appId) == map[MapIndex(map, appId, 1)]

\* processGameData(appId, achievementsData, gameInfo)
processGameData(appId, achievementsData, gameInfo) ==
    gamesData' = MapSet(gamesData, appId, GameRecord(appId, achievementsData, gameInfo))

----------------------------------------------------------------------------
(* GameLoader: the two load loops.  One action is one iteration. *)

AchievementsFetchedJsonOnly(g) == g.achFetch = "json"

\* lines 135-150: achFetch = "json" is an achievements.json that answers ok,
\* "db" a {appId}.db that answers ok after achievements.json did not, "none"
\* a game whose two files both answer not-ok ("continue"), "error" a fetch
\* that rejects or a body that json() rejects (the catch of line 179)
AchievementsFetched(g) == g.achFetch \in {"json", "db"}

\* lines 166-176: gameInfo stays null unless game-info.json answers ok and
\* is read; infoFetch is "ok", "notfound" or "error"
GameInfoOf(g) == IF g.infoFetch = "ok" THEN g.info ELSE NullInfo

\* One iteration of the loop of loadGamesFromAppIds.
LoadGamesFromAppIds ==
    /\ loadPath = "appIds"
    /\ i <= Len(server)
    /\ LET g == server[i]
           appId == String(g.appid)
       IN  IF AchievementsFetched(g)
           THEN processGameData(appId, ConvertLegacy(g.achievements), GameInfoOf(g))
           ELSE UNCHANGED gamesData
    /\ i' = i + 1
    /\ UNCHANGED <<server, loadPath, visitor, ownData, comparison, stats, cacheVars, restVars>>

\* One iteration of the loop of loadGamesFromData: the payload goes to
\* processGameData as it is in the data file.
LoadGamesFromData ==
    /\ loadPath = "data"
    /\ i <= Len(server)
    /\ LET gameData == server[i]
           appId == String(gameData.appid)
       IN  processGameData(appId, gameData.achievements, gameData.info)
    /\ i' = i + 1
    /\ UNCHANGED <<server, loadPath, visitor, ownData, comparison, stats, cacheVars, restVars>>

\* the load loop has run to its end
Loaded == i > Len(server)

PageLoadedAnyTime == TRUE

\* init() has returned: the page's script calls displayGames and
\* handleDeepLink only then
PageLoaded == Loaded

----------------------------------------------------------------------------
(* loadGamesFromAppIds, fetch by fetch *)

\* no pass has started
IdlePass == [step |-> "idle", inFlight |-> 0]

\* "await fetch(...)" for the file named by step: one more request in flight
Issue(p, step) == [step |-> step, inFlight |-> p.inFlight + 1]

\* the awaited response has come
Settle(p) == [p EXCEPT !.inFlight = @ - 1]

\* the top of the loop for position j: the request for achievements.json of
\* the j-th appId, or the end of the pass
Iteration(p, j) == IF j > Len(server) THEN [p EXCEPT !.step = "done"] ELSE Issue(p, "achievements")

\* loadGamesFromAppIds(appIds) up to its first await
StartPass ==
    /\ loadPath = "appIds"
    /\ pass.step = "idle"
    /\ pass' = Iteration(pass, i)
    /\ UNCHANGED <<viewVars, cacheVars, hubVars, detailVars, forkVars>>

\* the response for achievements.json: lines 141-150 and 179
AchievementsResponse ==
    /\ pass.step = "achievements"
    /\ LET g == server[i]
       IN  IF g.achFetch = "json"
           THEN /\ pass' = Issue(Settle(pass), "info")
                /\ UNCHANGED i
           ELSE IF g.achFetch = "error"
           THEN /\ pass' = Iteration(Settle(pass), i + 1)
                /\ i' = i + 1
           ELSE /\ pass' = Issue(Settle(pass), "db")
                /\ UNCHANGED i
    /\ UNCHANGED <<server, loadPath, gamesData, visitor, ownData, comparison, stats,
                   cacheVars, hubVars, detailVars, forkVars>>

\* the response for {appId}.db: lines 146-150
DbResponse ==
    /\ pass.step = "db"
    /\ IF AchievementsFetched(server[i])
       THEN /\ pass' = Issue(Settle(pass), "info")
            /\ UNCHANGED i
       ELSE /\ pass' = Iteration(Settle(pass), i + 1)
            /\ i' = i + 1
    /\ UNCHANGED <<server, loadPath, gamesData, visitor, ownData, comparison, stats,
                   cacheVars, hubVars, detailVars, forkVars>>

\* the response for game-info.json, then processGameData: lines 166-178
InfoResponse ==
    /\ pass.step = "info"
    /\ LET g == server[i]
       IN  processGameData(String(g.appid), ConvertLegacy(g.achievements), GameInfoOf(g))
    /\ pass' = Iteration(Settle(pass), i + 1)
    /\ i' = i + 1
    /\ UNCHANGED <<server, loadPath, visitor, ownData, comparison, stats,
                   cacheVars, hubVars, detailVars, forkVars>>

----------------------------------------------------------------------------
(* GameCompare *)

\* One call of loadOwnGameData(appId) that reaches the visitor's repository:
\* fetch = "none" is a game whose achievement files both answer not-ok.
LoadOwnGameData ==
    /\ Loaded
    /\ Len(gamesData) > 0
    /\ ~ownData.loaded
    /\ ownData' =
          IF visitor.fetch = "none"
          THEN [loaded |-> TRUE, isNull |-> TRUE, achievementsData |-> EmptyObject, blacklist |-> <<>>]
          ELSE [loaded |-> TRUE, isNull |-> FALSE,
                achievementsData |-> ConvertLegacy(visitor.achievements),
                blacklist |-> BlacklistOf(visitor.info)]
    /\ UNCHANGED <<server, loadPath, i, gamesData, visitor, comparison, stats, cacheVars, restVars>>

\* achievement.unlocked === true || achievement.unlocked === 1
TheyHave(achievement) == achievement.unlocked = JsTrue \/ achievement.unlocked = Num(1)

\* ownAch ? (ownAch.earned === true || ownAch.earned === 1) : false
YouHave(ownAchievements, apiName) ==
    /\ Has(ownAchievements, apiName)
    /\ \/ Get(ownAchievements, apiName).earned = JsTrue
       \/ Get(ownAchievements, apiName).earned = Num(1)

\* StatusOf with the two one-sided statuses exchanged
StatusOfSwapped(theyHave, youHave) ==
    IF theyHave /\ youHave THEN "both-unlocked"
    ELSE IF theyHave /\ ~youHave THEN "you-only"
    ELSE IF ~theyHave /\ youHave THEN "they-only"
    ELSE "both-locked"

\* the if / else-if chain that sets status
StatusOf(theyHave, youHave) ==
    IF theyHave /\ youHave THEN "both-unlocked"
    ELSE IF theyHave /\ ~youHave THEN "they-only"
    ELSE IF ~theyHave /\ youHave THEN "you-only"
    ELSE "both-locked"

\* the record pushed to comparison: {...achievement, status, yourUnlockTime, theirUnlockTime}
ComparisonRecord(achievement, ownAchievements) ==
    LET has == Has(ownAchievements, achievement.apiname)
        ownAch == IF has THEN Get(ownAchievements, achievement.apiname) ELSE NoFields
    IN  [apiname |-> achievement.apiname,
         name |-> achievement.name,
         description |-> achievement.description,
         hidden |-> achievement.hidden,
         icon |-> achievement.icon,
         icongray |-> achievement.icongray,
         unlocked |-> achievement.unlocked,
         unlocktime |-> achievement.unlocktime,
         rarity |-> achievement.rarity,
         group |-> achievement.group,
         status |-> StatusOf(TheyHave(achievement), YouHave(ownAchievements, achievement.apiname)),
         yourUnlockTime |-> Or(Or(Or(ownAch.earned_time, ownAch.unlock_time), ownAch.unlocktime), Num(0)),
         theirUnlockTime |-> Or(achievement.unlocktime, Num(0))]

RECURSIVE CompareLoopNoBlacklist(_, _, _, _, _)
\* CompareLoop without the test of the other user's blacklist
CompareLoopNoBlacklist(achievements, j, ownAchievements, ownBlacklist, result) ==
    IF j > Len(achievements) THEN result
    ELSE CompareLoopNoBlacklist(achievements, j + 1, ownAchievements, ownBlacklist,
             Append(result, ComparisonRecord(achievements[j], ownAchievements)))

RECURSIVE CompareLoop(_, _, _, _, _)
\* "for (const achievement of theirGame.achievements)" from position j on
CompareLoop(achievements, j, ownAchievements, ownBlacklist, result) ==
    IF j > Len(achievements) THEN result
    ELSE CompareLoop(achievements, j + 1, ownAchievements, ownBlacklist,
             IF Includes(ownBlacklist, achievements[j].apiname) THEN result
             ELSE Append(result, ComparisonRecord(achievements[j], ownAchievements)))

\* compareAchievements without the early return for missing data
compareAchievementsNoGuard(theirGame, own) ==
    [hasData |-> TRUE,
     comparison |-> CompareLoop(theirGame.achievements, 1, own.achievementsData, own.blacklist, <<>>)]

\* compareAchievements(theirGame, ownData)
compareAchievements(theirGame, own) ==
    IF own.isNull
    THEN [hasData |-> FALSE, comparison |-> <<>>]
    ELSE [hasData |-> TRUE,
          comparison |-> CompareLoop(theirGame.achievements, 1, own.achievementsData, own.blacklist, <<>>)]

\* the number of records with the given status
CountStatus(list, status) == Len(SelectSeq(list, LAMBDA a : a.status = status))

\* getComparisonStats with youOnly counting the they-only records
getComparisonStatsMiscount(list) ==
    LET bothUnlocked == CountStatus(list, "both-unlocked")
        youOnly == CountStatus(list, "they-only")
        theyOnly == CountStatus(list, "they-only")
        bothLocked == CountStatus(list, "both-locked")
    IN  [bothUnlocked |-> bothUnlocked, youOnly |-> youOnly, theyOnly |-> theyOnly,
         bothLocked |-> bothLocked,
         yourTotal |-> bothUnlocked + youOnly,
         theirTotal |-> bothUnlocked + theyOnly,
         total |-> Len(list)]

\* getComparisonStats(comparison)
getComparisonStats(list) ==
    LET bothUnlocked == CountStatus(list, "both-unlocked")
        youOnly == CountStatus(list, "you-only")
        theyOnly == CountStatus(list, "they-only")
        bothLocked == CountStatus(list, "both-locked")
    IN  [bothUnlocked |-> bothUnlocked, youOnly |-> youOnly, theyOnly |-> theyOnly,
         bothLocked |-> bothLocked,
         yourTotal |-> bothUnlocked + youOnly,
         theirTotal |-> bothUnlocked + theyOnly,
         total |-> Len(list)]

\* compareAchievements on a game of the collection and the loaded visitor data
CompareAchievements ==
    /\ ownData.loaded
    /\ ~comparison.done
    /\ \E g \in 1..Len(gamesData) :
          LET r == compareAchievements(gamesData[g], ownData)
          IN  comparison' = [done |-> TRUE, appId |-> gamesData[g].appId,
                             hasData |-> r.hasData, comparison |-> r.comparison]
    /\ UNCHANGED <<server, loadPath, i, gamesData, visitor, ownData, stats, cacheVars, restVars>>

\* getComparisonStats on the list last produced
GetComparisonStats ==
    /\ comparison.done
    /\ ~stats.done
    /\ LET r == getComparisonStats(comparison.comparison)
       IN  stats' = [done |-> TRUE, bothUnlocked |-> r.bothUnlocked, youOnly |-> r.youOnly,
                     theyOnly |-> r.theyOnly, bothLocked |-> r.bothLocked,
                     yourTotal |-> r.yourTotal, theirTotal |-> r.theirTotal, total |-> r.total]
    /\ UNCHANGED <<server, loadPath, i, gamesData, visitor, ownData, comparison, cacheVars, restVars>>

----------------------------------------------------------------------------
(* GameLoader: loadGameDataWithCache *)

CACHE_VERSION == "v2"

CACHE_MAX_AGE == 60 * 60 * 1000

\* userInfo.username when the module is loaded, and another user of the browser
Username == "alice"

OtherUsername == "bob"

TimestampKeyOf(version, username) == "game-data-last-updated-" \o version \o "-" \o username

DataKeyOf(version, username) == "game-data-cache-" \o version \o "-" \o username

CACHE_TIMESTAMP_KEY == TimestampKeyOf(CACHE_VERSION, Username)

CACHE_DATA_KEY == DataKeyOf(CACHE_VERSION, Username)

\* the keys the browser may hold: this user's, an older format's, another user's
StorageKeys ==
    {TimestampKeyOf(v, u) : v \in {"v1", CACHE_VERSION}, u \in {Username, OtherUsername}}
    \cup {DataKeyOf(v, u) : v \in {"v1", CACHE_VERSION}, u \in {Username, OtherUsername}}

\* last_updated of the n-th version of the data file, in seconds
Stamp(n) == 1000 * n

\* JSON.stringify(games) for the games list of the n-th version of the file
Stringify(n) == "games:" \o ToString(n)

\* JSON.parse of a string written by Stringify
Parse(str) == CHOOSE n \in 1..(MaxVersions + 1) : Stringify(n) = str

\* parseInt of a string written by lastUpdated.toString()
ParseInt(str) == CHOOSE n \in {Stamp(v) : v \in 1..(MaxVersions + 1)} : ToString(n) = str

\* game-data.json: version n of the file; format "array" (bare list),
\* "object" ({games, last_updated}) or "invalid"; stamped: last_updated is
\* there and not 0; inPrefix: it lies in the first 200 bytes
DataFile(n, format, stamped, inPrefix) ==
    [version |-> n, format |-> format, stamped |-> stamped, inPrefix |-> inPrefix]

DataFiles(n) ==
    {DataFile(n, "array", FALSE, FALSE), DataFile(n, "invalid", FALSE, FALSE),
     DataFile(n, "object", FALSE, FALSE), DataFile(n, "object", TRUE, FALSE),
     DataFile(n, "object", TRUE, TRUE)}

\* text.match(/"last_updated":\s*(\d+)/) on the first bytes: match[1], "" for no match
MatchLastUpdated(file) ==
    IF file.format = "object" /\ file.stamped /\ file.inPrefix
    THEN ToString(Stamp(file.version))
    ELSE ""

\* data.last_updated, 0 when it is missing
LastUpdatedOf(file) == IF file.stamped THEN Stamp(file.version) ELSE 0

\* localStorage with nothing of this user in it
EmptyStorage ==
    [k \in StorageKeys |->
        IF k = TimestampKeyOf(CACHE_VERSION, OtherUsername) THEN "500"
        ELSE IF k = DataKeyOf(CACHE_VERSION, OtherUsername) THEN "games:0"
        ELSE IF k = TimestampKeyOf("v1", Username) THEN "700"
        ELSE ""]

NoFile == DataFile(0, "none", FALSE, FALSE)

\* no call yet
IdleLoad ==
    [pc |-> "idle", cachedTimestamp |-> "", cachedGames |-> "", startStorage |-> EmptyStorage,
     requests |-> 0, range |-> "", serverTimestamp |-> "", full |-> "", payload |-> NoFile,
     write |-> "none", now |-> 0, kind |-> "none", games |-> 0, source |-> ""]

\* the values Date.now() / 1000 takes when the fallback reads the clock
NowValues == {Stamp(v) + d : v \in 1..MaxVersions, d \in {0 - 1, 3599, 3600, 7200}}

\* the call starts: lines 16-20
StartLoad ==
    /\ load.pc \in {"idle", "done"}
    /\ load' = [IdleLoad EXCEPT !.pc = "range",
                                !.cachedTimestamp = localStorage[CACHE_TIMESTAMP_KEY],
                                !.cachedGames = localStorage[CACHE_DATA_KEY],
                                !.startStorage = localStorage]
    /\ UNCHANGED <<localStorage, dataServer, viewVars, restVars>>

CacheIsFreshInclusive(now, cachedTimestamp) ==
    (now - ParseInt(cachedTimestamp)) * 1000 <= CACHE_MAX_AGE

\* cacheAge < CACHE_MAX_AGE of lines 112-115
CacheIsFresh(now, cachedTimestamp) ==
    LET cacheAge == (now - ParseInt(cachedTimestamp)) * 1000
    IN  cacheAge < CACHE_MAX_AGE

\* the catch block of lines 105-124, entered with the call record l
Fallback(l) ==
    LET cachedGames == localStorage[CACHE_DATA_KEY]
        cachedTimestamp == localStorage[CACHE_TIMESTAMP_KEY]
    IN  /\ IF cachedGames # "" /\ cachedTimestamp # ""
           THEN \E now \in NowValues :
                       load' = IF CacheIsFresh(now, cachedTimestamp)
                               THEN [l EXCEPT !.pc = "done", !.now = now, !.kind = "games",
                                              !.games = Parse(cachedGames), !.source = "fallback"]
                               ELSE [l EXCEPT !.pc = "done", !.now = now, !.kind = "error"]
           ELSE load' = [l EXCEPT !.pc = "done", !.kind = "error"]
        /\ UNCHANGED localStorage

WriteCacheOtherKeys(lastUpdated, games, q) ==
    IF q = "quota1" THEN localStorage
    ELSE IF q = "quota2"
    THEN [localStorage EXCEPT ![TimestampKeyOf(CACHE_VERSION, OtherUsername)] = ToString(lastUpdated)]
    ELSE [localStorage EXCEPT ![TimestampKeyOf(CACHE_VERSION, OtherUsername)] = ToString(lastUpdated),
                              ![DataKeyOf(CACHE_VERSION, OtherUsername)] = Stringify(games)]

\* the two setItem calls of lines 89-90 with outcome q: "ok", "quota1" (the
\* first call throws) or "quota2" (the second call throws)
WriteCache(lastUpdated, games, q) ==
    IF q = "quota1" THEN localStorage
    ELSE IF q = "quota2"
    THEN [localStorage EXCEPT ![CACHE_TIMESTAMP_KEY] = ToString(lastUpdated)]
    ELSE [localStorage EXCEPT ![CACHE_TIMESTAMP_KEY] = ToString(lastUpdated),
                              ![CACHE_DATA_KEY] = Stringify(games)]

\* lines 65-103 on the parsed response body
HandleData(l, data) ==
    LET got == [l EXCEPT !.payload = data]
    IN  IF data.format = "array"
        THEN /\ load' = [got EXCEPT !.pc = "done", !.kind = "games", !.games = data.version,
                                    !.source = "network"]
             /\ UNCHANGED localStorage
        ELSE IF data.format = "object"
        THEN IF LastUpdatedOf(data) # 0
             THEN \E q \in {"ok", "quota1", "quota2"} :
                     /\ localStorage' = WriteCache(LastUpdatedOf(data), data.version, q)
                     /\ load' = [got EXCEPT !.pc = "done", !.kind = "games", !.games = data.version,
                                            !.source = "network", !.write = q]
             ELSE /\ load' = [got EXCEPT !.pc = "done", !.kind = "games", !.games = data.version,
                                         !.source = "network"]
                  /\ UNCHANGED localStorage
        ELSE Fallback(got)

CacheIsCurrentNever(serverTimestamp, cachedTimestamp, cachedGames) == FALSE

\* the test of line 36
CacheIsCurrent(serverTimestamp, cachedTimestamp, cachedGames) ==
    /\ serverTimestamp # ""
    /\ cachedTimestamp # ""
    /\ cachedGames # ""
    /\ serverTimestamp = cachedTimestamp

NeedsFullFetchAlways(outcome) == TRUE

\* needsFullFetch after the range request: true unless a 200 body was read
NeedsFullFetch(outcome) == outcome # "200"

InnerCatchFails(l) == Fallback(l)

\* the catch of lines 48-50: the error is logged and the call goes on
InnerCatch(l) ==
    /\ load' = [l EXCEPT !.pc = "full"]
    /\ UNCHANGED localStorage

\* the answer to the range request: lines 23-50.  "throw": the fetch or the
\* reading of the body rejects; "unreadable200": status 200 with a body that
\* json() rejects; "other": a status that is neither 200 nor 206
RangeResponse ==
    /\ load.pc = "range"
    /\ \E outcome \in {"throw", "206", "200", "unreadable200", "other"} :
          LET serverTimestamp == IF outcome = "206" THEN MatchLastUpdated(dataServer) ELSE ""
              l == [load EXCEPT !.requests = @ + 1, !.range = outcome,
                                !.serverTimestamp = serverTimestamp]
          IN  IF /\ outcome = "206"
                 /\ CacheIsCurrent(serverTimestamp, load.cachedTimestamp, load.cachedGames)
              THEN /\ load' = [l EXCEPT !.pc = "done", !.kind = "games",
                                        !.games = Parse(load.cachedGames), !.source = "check"]
                   /\ UNCHANGED localStorage
              ELSE IF outcome \in {"throw", "unreadable200"}
              THEN InnerCatch(l)
              ELSE IF NeedsFullFetch(outcome)
              THEN /\ load' = [l EXCEPT !.pc = "full"]
                   /\ UNCHANGED localStorage
              ELSE HandleData(l, dataServer)
    /\ UNCHANGED <<dataServer, viewVars, restVars>>

\* the answer to the full request: lines 53-63.  "throw": the fetch rejects;
\* "notok": a status outside 200-299; "unreadable": json() rejects
FullResponse ==
    /\ load.pc = "full"
    /\ \E outcome \in {"ok", "throw", "notok", "unreadable"} :
          LET l == [load EXCEPT !.requests = @ + 1, !.full = outcome]
          IN  IF outcome = "ok" THEN HandleData(l, dataServer) ELSE Fallback(l)
    /\ UNCHANGED <<dataServer, viewVars, restVars>>

\* the owner's workflow publishes the next version of game-data.json
ServerUpdate ==
    /\ dataServer.version < MaxVersions
    /\ dataServer' \in DataFiles(dataServer.version + 1)
    /\ UNCHANGED <<localStorage, load, viewVars, restVars>>

----------------------------------------------------------------------------
(* The inputs: what the fetched files can hold *)

KeyNames == <<"A", "B", "C">>

\* sequences of n distinct keys, in every order
KeySeqs(n) ==
    {[j \in 1..n |-> KeyNames[f[j]]] :
        f \in {g \in [1..n -> 1..Len(KeyNames)] : \A a, b \in 1..n : g[a] = g[b] => a = b}}

\* sequences of n distinct keys, in alphabetical order
SortedKeySeqs(n) ==
    {[j \in 1..n |-> KeyNames[f[j]]] :
        f \in {g \in [1..n -> 1..Len(KeyNames)] : \A a, b \in 1..n : a < b => g[a] < g[b]}}

\* sequences of n entries, at most one of them outside the basic ones
Entries(basic, rich, n) ==
    [1..n -> basic] \cup
    {[b EXCEPT ![p] = r] : b \in [1..n -> basic], p \in 1..n, r \in rich}

\* the object {ks[1]: es[1], ...}
ObjectOf(ks, es) == Obj("object", FALSE, [j \in 1..Len(ks) |-> [key |-> ks[j], val |-> es[j]]])

Wrapped(o) == Obj(o.kind, TRUE, o.props)

\* save entries: unlock flags of every type the code may meet
FlagEntries ==
    {[NoFields EXCEPT !.earned = e, !.unlocked = u, !.achieved = a, !.earned_time = t] :
        e \in {Undefined, JsTrue, JsFalse, Num(0)},
        u \in {Undefined, Str("yes")},
        a \in {Undefined, Num(1), Num(2)},
        t \in {Undefined, Num(1000)}}

\* save entries: the three aliases of the unlock time
TimeEntries ==
    {[NoFields EXCEPT !.earned = e, !.earned_time = t1, !.unlock_time = t2, !.unlocktime = t3] :
        e \in {JsTrue, JsFalse},
        t1 \in {Undefined, Num(0), Num(1000)},
        t2 \in {Undefined, Num(700)},
        t3 \in {Undefined, Num(500)}}

\* save entries that carry display fields of their own
MetaEntries ==
    {[NoFields EXCEPT !.earned = JsTrue, !.percent = Num(5), !.group = Str("DLC")],
     [NoFields EXCEPT !.earned = JsTrue, !.percent = Num(0), !.group = Str("")],
     [NoFields EXCEPT !.earned = JsTrue, !.name = Str("Name"), !.description = Str("Desc"),
                      !.hidden = JsTrue, !.icon = Str("i.png"), !.icongray = Str("g.png")],
     [NoFields EXCEPT !.earned = JsFalse, !.displayName = Str("Display"), !.desc = Str("d"),
                      !.icon_gray = Str("g2.png")]}

BasicEntries ==
    {[NoFields EXCEPT !.earned = JsTrue, !.earned_time = Num(1000)],
     [NoFields EXCEPT !.earned = JsFalse]}

RichEntries == FlagEntries \cup TimeEntries \cup MetaEntries

\* entries of a legacy array
LegacyEntries ==
    {[NoFields EXCEPT !.apiname = k, !.achieved = a, !.unlocktime = t] :
        k \in {Undefined, Str("A"), Str("B")},
        a \in {Undefined, Num(1), Num(0), JsTrue},
        t \in {Undefined, Num(0), Num(500)}}

BasicLegacy ==
    {[NoFields EXCEPT !.apiname = Str("A"), !.achieved = Num(1), !.unlocktime = Num(500)],
     [NoFields EXCEPT !.apiname = Str("B"), !.achieved = Num(0)]}

\* keyed save mappings
Mappings(basic, rich) ==
    UNION {{ObjectOf(ks, es) : ks \in SortedKeySeqs(n), es \in Entries(basic, rich, n)} : n \in 0..MaxLen}

\* legacy arrays
Arrays(basic, rich) ==
    UNION {{ArrayOf(es) : es \in Entries(basic, rich, n)} : n \in 0..MaxLen}

BasicPayloads ==
    LET plain == Mappings(BasicEntries, {})
    IN  plain \cup {Wrapped(o) : o \in plain} \cup Arrays(BasicLegacy, {})

RichPayloads == Mappings(BasicEntries, RichEntries) \cup Arrays(BasicLegacy, LegacyEntries)

\* schema entries
SchemaBasic == {[NoFields EXCEPT !.name = Str("Title")]}

SchemaRich ==
    {[NoFields EXCEPT !.percent = Num(5), !.group = Str("DLC")],
     [NoFields EXCEPT !.percent = Num(0)],
     [NoFields EXCEPT !.name = Str("Title"), !.description = Str("Desc"), !.hidden = JsTrue,
                      !.icon = Str("i.png"), !.icongray = Str("g.png"), !.percent = Str("12.5")]}

\* the achievements object of a game-info.json
Schemas ==
    UNION {{[j \in 1..n |-> [key |-> ks[j], val |-> es[j]]] :
               ks \in KeySeqs(n), es \in Entries(SchemaBasic, SchemaRich, n)} : n \in 0..MaxLen}

Blacklists == {<<>>, <<"A">>, <<"B", "A">>}

\* a game-info.json
Info(hasAchievements, schema, hasBlacklist, blacklist, named) ==
    [isNull |-> FALSE,
     name |-> IF named THEN Str("Portal") ELSE Undefined,
     icon |-> IF named THEN Str("portal.jpg") ELSE Undefined,
     uses_db |-> IF named THEN JsTrue ELSE Undefined,
     platform |-> IF named THEN Str("Steam") ELSE Undefined,
     hasBlacklist |-> hasBlacklist, blacklist |-> blacklist,
     hasAchievements |-> hasAchievements, achievements |-> schema]

AllInfos ==
    {NullInfo}
    \cup {Info(TRUE, s, TRUE, b, TRUE) : s \in Schemas, b \in Blacklists}
    \cup {Info(FALSE, <<>>, TRUE, b, FALSE) : b \in Blacklists}
    \cup {Info(TRUE, <<>>, FALSE, <<>>, FALSE), Info(FALSE, <<>>, FALSE, <<>>, TRUE)}

FewInfos ==
    {NullInfo,
     Info(TRUE, <<[key |-> "A", val |-> NoFields], [key |-> "B", val |-> NoFields]>>, FALSE, <<>>, FALSE)}

\* one game of the repository and how its files answer
GameFetched(appid, achFetch, achievements, infoFetch, info) ==
    [appid |-> appid, achFetch |-> achFetch, achievements |-> achievements,
     infoFetch |-> infoFetch, info |-> info]

\* one game of the repository; a null info is a game-info.json that is not there
Game(appid, achFetch, achievements, info) ==
    GameFetched(appid, achFetch, achievements, IF info.isNull THEN "notfound" ELSE "ok", info)

\* every payload with a few game-infos, every game-info with the basic payloads
GameFiles ==
    {<<a, g>> : a \in RichPayloads, g \in FewInfos}
    \cup {<<a, g>> : a \in BasicPayloads, g \in AllInfos}

NoVisitor == [fetch |-> "none", achievements |-> EmptyObject, info |-> NullInfo]

NoOwnData == [loaded |-> FALSE, isNull |-> TRUE, achievementsData |-> EmptyObject, blacklist |-> <<>>]

NoComparison == [done |-> FALSE, appId |-> "", hasData |-> FALSE, comparison |-> <<>>]

NoStats ==
    [done |-> FALSE, bothUnlocked |-> 0, youOnly |-> 0, theyOnly |-> 0, bothLocked |-> 0,
     yourTotal |-> 0, theirTotal |-> 0, total |-> 0]

----------------------------------------------------------------------------
(* The hub (src/unnamed/part_001): loadGameData(person) *)

NoPerson ==
    [done |-> FALSE, achievements |-> 0, totalGames |-> 0, perfectGames |-> 0,
     totalAchievements |-> 0, counts |-> <<>>]

\* Object.keys(o) of a payload as it is in the data file
RawKeys(o) ==
    IF o.wrapped THEN <<"achievements">> ELSE [j \in 1..Len(o.props) |-> o.props[j].key]

\* gameInfo?.blacklist || [] with gameInfo = g.info || g: a game entry
\* itself carries no blacklist
HubBlacklist(g) == IF g.info.isNull THEN <<>> ELSE BlacklistOf(g.info)

\* Object.keys(gameInfo.achievements) with gameInfo = g.info || g, <<>> when
\* gameInfo.achievements is missing: without g.info the game entry stands in
\* for it, and its achievements are the save data
HubSchemaKeys(g) ==
    IF g.info.isNull THEN RawKeys(g.achievements)
    ELSE IF g.info.hasAchievements
    THEN [j \in 1..Len(g.info.achievements) |-> g.info.achievements[j].key]
    ELSE <<>>

\* userAch && (userAch.earned === true || userAch.earned === 1)
HubEarned(gameAchievements, key) ==
    /\ Has(gameAchievements, key)
    /\ Get(gameAchievements, key).earned \in {JsTrue, Num(1)}

\* one iteration of the loop of lines 44-87
HubCount(g) ==
    LET blacklist == HubBlacklist(g)
        hasFullSchema == Len(HubSchemaKeys(g)) > 0
        keys == IF hasFullSchema
                THEN SelectSeq(HubSchemaKeys(g), LAMBDA k : ~Includes(blacklist, k))
                ELSE RawKeys(g.achievements)
        totalCount == Len(keys)
        earnedCount == Len(SelectSeq(keys, LAMBDA k : HubEarned(g.achievements, k)))
    IN  [totalCount |-> totalCount, earnedCount |-> earnedCount,
         canDeterminePerfect |-> hasFullSchema,
         perfect |-> hasFullSchema /\ totalCount > 0 /\ earnedCount = totalCount]

RECURSIVE SumSeq(_)
\* the sum of a sequence of numbers
SumSeq(nums) == IF nums = <<>> THEN 0 ELSE Head(nums) + SumSeq(Tail(nums))

\* the figures left on person, from the counts of the games
PersonOf(counts) ==
    [done |-> TRUE,
     achievements |-> SumSeq([j \in 1..Len(counts) |-> counts[j].earnedCount]),
     totalGames |-> Len(counts),
     perfectGames |-> SumSeq([j \in 1..Len(counts) |-> IF counts[j].perfect THEN 1 ELSE 0]),
     totalAchievements |-> SumSeq([j \in 1..Len(counts) |-> counts[j].totalCount]),
     counts |-> counts]

\* loadGameData(person) on the user's game-data.json: "games" is a file that
\* holds the list, "nodata" a file that is not there, "invalid" a file of
\* another shape, "error" a fetch that throws
LoadGameData ==
    /\ ~person.done
    /\ \E outcome \in {"games", "nodata", "invalid", "error"} :
          person' = IF outcome = "games"
                    THEN PersonOf([j \in 1..Len(server) |-> HubCount(server[j])])
                    ELSE [NoPerson EXCEPT !.done = TRUE]
    /\ UNCHANGED <<viewVars, cacheVars, summary, detailVars, forkVars, passVars>>

----------------------------------------------------------------------------
(* GameRenderer: the summary of displayGames *)

NoSummary ==
    [done |-> FALSE, totalGames |-> 0, totalAchievements |-> 0, totalUnlocked |-> 0,
     perfectGames |-> 0]

\* game.achievements.filter(a => a.unlocked).length
UnlockedCount(game) == Len(SelectSeq(game.achievements, LAMBDA a : Truthy(a.unlocked)))

\* displayGames with no search term: lines 58-88
DisplayGames ==
    /\ PageLoaded
    /\ ~summary.done
    /\ summary' =
          IF Len(gamesData) = 0 THEN [NoSummary EXCEPT !.done = TRUE]
          ELSE [done |-> TRUE,
                totalGames |-> Len(gamesData),
                totalAchievements |-> SumSeq([j \in 1..Len(gamesData) |-> Len(gamesData[j].achievements)]),
                totalUnlocked |-> SumSeq([j \in 1..Len(gamesData) |-> UnlockedCount(gamesData[j])]),
                perfectGames |-> SumSeq([j \in 1..Len(gamesData) |->
                    IF /\ Len(gamesData[j].achievements) > 0
                       /\ UnlockedCount(gamesData[j]) = Len(gamesData[j].achievements)
                    THEN 1 ELSE 0])]
    /\ UNCHANGED <<viewVars, cacheVars, person, detailVars, forkVars, passVars>>

----------------------------------------------------------------------------
(* GameRenderer and GameCompare: the detail view and compare mode *)

\* largest number of enableCompareMode calls that await their data at once
MaxPending == 2

\* the page owner, window.githubUsername
PageOwner == "alice"

\* values of the vs parameter: "" is no parameter
Visitors == {"", "Alice", "bob"}

\* String.prototype.toLowerCase on the names used
ToLowerCase(name) == IF name = "Alice" THEN "alice" ELSE name

\* getVisitorUsername()
getVisitorUsername == location.vs

\* isOwnProfile()
isOwnProfile ==
    /\ getVisitorUsername # ""
    /\ ToLowerCase(getVisitorUsername) = ToLowerCase(PageOwner)

\* `${ownUsername}_${appId}`
CacheKey(ownUsername, appId) == ownUsername \o "_" \o appId

\* the appIds the page can be asked to show; "999" is not in gamesData
ShownAppIds == {"440", "570", "999"}

CacheKeys == {CacheKey(u, a) : u \in Visitors \ {""}, a \in ShownAppIds}

\* comparisonData: null
NullComparison == [isNull |-> TRUE, forApp |-> "", hasData |-> FALSE]

\* compareAchievements(game, ownData), reduced to the game it was computed
\* for and to whether the visitor's data was there
ComparisonOf(game, own) == [isNull |-> FALSE, forApp |-> game.appId, hasData |-> own # "null"]

\* window.currentGameData before the first showGameDetail
NoGameData ==
    [set |-> FALSE, appId |-> "", game |-> [appId |-> ""], compareMode |-> FALSE,
     comparisonData |-> NullComparison]

\* the detail view before it is first rendered
HiddenDetail == [active |-> FALSE, mode |-> "none", appId |-> "", comparisonData |-> NullComparison]

NoSession ==
    [deepLinked |-> FALSE, fetches |-> 0,
     first |-> [k \in CacheKeys |-> "none"],
     last |-> [k \in CacheKeys |-> "none"],
     overlapped |-> [k \in CacheKeys |-> FALSE],
     late |-> [key |-> "", result |-> "", fetched |-> FALSE]]

\* renderGameDetail() on the record cur
RenderGameDetail(cur) ==
    [active |-> TRUE,
     mode |-> IF cur.compareMode THEN "comparison" ELSE "normal",
     appId |-> cur.game.appId,
     comparisonData |-> IF cur.compareMode THEN cur.comparisonData ELSE NullComparison]

\* the record showGameDetail stores
ShownGame(appId) ==
    [set |-> TRUE, appId |-> appId, game |-> [appId |-> MapGet(gamesData, appId).appId],
     compareMode |-> FALSE, comparisonData |-> NullComparison]

CacheAfterSkipsNull(cache, key, result) ==
    IF result = "null" THEN cache ELSE [cache EXCEPT ![key] = result]

\* comparisonCache.set(cacheKey, result): lines 63, 98 and 103
CacheAfter(cache, key, result) == [cache EXCEPT ![key] = result]

\* the part of enableCompareMode after the await, on the record cur that
\* window.currentGameData is at that moment
StoreComparison(cur, game, own) ==
    LET next == [cur EXCEPT !.comparisonData = ComparisonOf(game, own)]
    IN  /\ currentGameData' = next
        /\ detailView' = RenderGameDetail(next)

\* enableCompareMode() up to its await, on the record cur: with a visitor,
\* compare mode is set and loadOwnGameData(appId) is called; a memoized
\* result comes back before any other event, else a fetch is issued
EnableFrom(cur, seen) ==
    IF getVisitorUsername = ""
    THEN /\ session' = seen
         /\ UNCHANGED <<currentGameData, detailView, calls, comparisonCache>>
    ELSE LET key == CacheKey(getVisitorUsername, cur.appId)
             on == [cur EXCEPT !.compareMode = TRUE]
             isLate == seen.first[key] # "none"
             pending == \E c \in 1..Len(calls) : calls[c].key = key
         IN  IF comparisonCache[key] # "absent"
             THEN /\ StoreComparison(on, on.game, comparisonCache[key])
                  /\ session' = [seen EXCEPT !.late =
                        IF isLate
                        THEN [key |-> key, result |-> comparisonCache[key], fetched |-> FALSE]
                        ELSE @]
                  /\ UNCHANGED <<calls, comparisonCache>>
             ELSE /\ currentGameData' = on
                  /\ detailView' = RenderGameDetail(on)
                  /\ calls' = Append(calls, [key |-> key, appId |-> on.appId, game |-> on.game])
                  /\ session' = [seen EXCEPT !.fetches = @ + 1,
                                             !.overlapped[key] = @ \/ pending,
                                             !.late =
                        IF isLate THEN [key |-> key, result |-> "", fetched |-> TRUE] ELSE @]
                  /\ UNCHANGED comparisonCache

\* a click on a game card of the grid, which is there once the page has
\* loaded: showGameDetail(appId)
ShowGameDetail ==
    /\ session.deepLinked
    /\ ~detailView.active
    /\ \E appId \in ShownAppIds :
          IF MapIndex(gamesData, appId, 1) = 0
          THEN UNCHANGED <<currentGameData, detailView>>
          ELSE /\ currentGameData' = ShownGame(appId)
               /\ detailView' = RenderGameDetail(ShownGame(appId))
    /\ UNCHANGED <<viewVars, cacheVars, hubVars, forkVars, passVars, location, calls, comparisonCache, session>>

\* the back button: hideGameDetail()
HideGameDetail ==
    /\ detailView.active
    /\ detailView' = [detailView EXCEPT !.active = FALSE]
    /\ UNCHANGED <<viewVars, cacheVars, hubVars, forkVars, passVars, location, currentGameData, calls,
                   comparisonCache, session>>

\* handleDeepLink(), once when the page has loaded
HandleDeepLink ==
    /\ PageLoaded
    /\ ~session.deepLinked
    /\ LET seen == [session EXCEPT !.deepLinked = TRUE]
       IN  IF location.game # "" /\ MapIndex(gamesData, location.game, 1) # 0
           THEN IF location.vs # ""
                THEN EnableFrom(ShownGame(location.game), seen)
                ELSE /\ currentGameData' = ShownGame(location.game)
                     /\ detailView' = RenderGameDetail(ShownGame(location.game))
                     /\ session' = seen
                     /\ UNCHANGED <<calls, comparisonCache>>
           ELSE /\ session' = seen
                /\ UNCHANGED <<currentGameData, detailView, calls, comparisonCache>>
    /\ UNCHANGED <<viewVars, cacheVars, hubVars, forkVars, passVars, location>>

\* the compare button of the normal view, shown with a visitor who is not
\* the owner: window.enableCompareMode()
EnableCompareMode ==
    /\ detailView.active
    /\ detailView.mode = "normal"
    /\ getVisitorUsername # ""
    /\ ~isOwnProfile
    /\ Len(calls) < MaxPending
    /\ EnableFrom(currentGameData, session)
    /\ UNCHANGED <<viewVars, cacheVars, hubVars, forkVars, passVars, location>>

\* the fetches of one pending loadOwnGameData end, with data or with null
\* (not found, or an error), and the call of enableCompareMode goes on
CompleteLoad ==
    /\ \E c \in 1..Len(calls), result \in {"data", "null"} :
          LET call == calls[c]
          IN  /\ comparisonCache' = CacheAfter(comparisonCache, call.key, result)
              /\ calls' = [j \in 1..(Len(calls) - 1) |-> IF j < c THEN calls[j] ELSE calls[j + 1]]
              /\ StoreComparison(currentGameData, call.game, result)
              /\ session' = [session EXCEPT
                    !.first[call.key] = IF @ = "none" THEN result ELSE @,
                    !.last[call.key] = result,
                    !.late = IF @.fetched /\ @.key = call.key
                             THEN [@ EXCEPT !.result = result] ELSE @]
    /\ UNCHANGED <<viewVars, cacheVars, hubVars, forkVars, passVars, location>>

\* the Normal View button of the comparison view: window.disableCompareMode()
DisableCompareMode ==
    /\ detailView.active
    /\ detailView.mode = "comparison"
    /\ LET next == [currentGameData EXCEPT !.compareMode = FALSE,
                                           !.comparisonData = NullComparison]
       IN  /\ currentGameData' = next
           /\ detailView' = RenderGameDetail(next)
    /\ UNCHANGED <<viewVars, cacheVars, hubVars, forkVars, passVars, location, calls, comparisonCache, session>>

----------------------------------------------------------------------------
(* utils.js: fetchAllForks(owner, repo) *)

\* largest number of non-empty pages of forks a repository has
MaxPages == 2

CACHE_TTL == 30 * 60 * 1000

\* the owner/repo pairs fetchAllForks is called with
Repos == {"Roschach96/achievement-viewer", "alice/other-viewer"}

\* number of non-empty pages of the forks listing of a repository
ForkPages(repo) == IF repo = "Roschach96/achievement-viewer" THEN MaxPages ELSE 1

\* Date.now() - time when the cached item is read
ForkAges == {0, CACHE_TTL - 1, CACHE_TTL, 2 * CACHE_TTL}

\* a fork list: the pages 1..pages of the forks of repo; ended tells how the
\* pagination run that built it ended, on an "empty" page or on a "failed" one
ForkList(repo, pages, ended) == [repo |-> repo, pages |-> pages, ended |-> ended]

NoForkList == ForkList("", 0, "none")

NoForksCache == [present |-> FALSE, data |-> NoForkList]

IdleForksRun ==
    [pc |-> "idle", repo |-> "", page |-> 0, requests |-> 0, source |-> "", age |-> 0,
     kind |-> "none", result |-> NoForkList]

\* fetchAllForks(owner, repo) up to its first await: lines 60-74
FetchAllForks ==
    /\ forksRun.pc \in {"idle", "done"}
    /\ \E repo \in Repos, age \in ForkAges :
          forksRun' =
             IF forksCache.present /\ age < CACHE_TTL
             THEN [IdleForksRun EXCEPT !.pc = "done", !.repo = repo, !.source = "cache",
                                       !.age = age, !.kind = "list", !.result = forksCache.data]
             ELSE [IdleForksRun EXCEPT !.pc = "page", !.repo = repo, !.page = 1, !.age = age]
    /\ UNCHANGED <<forksCache, viewVars, cacheVars, hubVars, detailVars, passVars>>

\* the answer to the request for one page: lines 75-83.  "ok" is the page
\* as the repository has it, "notok" a status outside 200-299 (fetchJSON
\* gives null), "throw" a fetch that rejects
ForkPageResponse ==
    /\ forksRun.pc = "page"
    /\ \E outcome \in {"ok", "notok", "throw"} :
          LET run == [forksRun EXCEPT !.requests = @ + 1]
              empty == forksRun.page > ForkPages(forksRun.repo)
              forks == ForkList(forksRun.repo, forksRun.page - 1,
                                IF outcome = "ok" THEN "empty" ELSE "failed")
          IN  IF outcome = "throw"
              THEN /\ forksRun' = [run EXCEPT !.pc = "done", !.kind = "error"]
                   /\ UNCHANGED forksCache
              ELSE IF outcome = "ok" /\ ~empty
              THEN /\ forksRun' = [run EXCEPT !.page = @ + 1]
                   /\ UNCHANGED forksCache
              ELSE /\ forksRun' = [run EXCEPT !.pc = "done", !.source = "network",
                                              !.kind = "list", !.result = forks]
                   /\ forksCache' = [present |-> TRUE, data |-> forks]
    /\ UNCHANGED <<viewVars, cacheVars, hubVars, detailVars, passVars>>

\* nothing has run outside the loader, the comparison and the cache
RestIdle ==
    /\ pass = IdlePass
    /\ forksCache = NoForksCache
    /\ forksRun = IdleForksRun
    /\ person = NoPerson
    /\ summary = NoSummary
    /\ location = [vs |-> "", game |-> ""]
    /\ currentGameData = NoGameData
    /\ detailView = HiddenDetail
    /\ calls = <<>>
    /\ comparisonCache = [k \in CacheKeys |-> "absent"]
    /\ session = NoSession

----------------------------------------------------------------------------
(* The loader on one game *)

Init ==
    /\ loadPath \in {"appIds", "data"}
    /\ \E f \in GameFiles :
          \/ server = <<Game(IF loadPath = "data" THEN Num(440) ELSE Str("440"), "json", f[1], f[2])>>
          \/ /\ loadPath = "appIds"
             /\ f = <<EmptyObject, NullInfo>>
             /\ server = <<Game(Str("440"), "none", f[1], f[2])>>
    /\ i = 1
    /\ gamesData = <<>>
    /\ visitor = NoVisitor
    /\ ownData = NoOwnData
    /\ comparison = NoComparison
    /\ stats = NoStats
    /\ localStorage = EmptyStorage
    /\ dataServer = DataFile(1, "array", FALSE, FALSE)
    /\ load = IdleLoad
    /\ RestIdle

Next ==
    \/ LoadGamesFromAppIds
    \/ LoadGamesFromData

Spec == Init /\ [][Next]_vars

----------------------------------------------------------------------------
(* The loader on one game, then one comparison with a visitor *)

\* save entries of the page owner: unlocked by each alias and value type
OwnerEntries ==
    {[NoFields EXCEPT !.earned = JsFalse, !.earned_time = Num(1000)],
     [NoFields EXCEPT !.achieved = Num(1), !.unlocktime = Num(500)],
     [NoFields EXCEPT !.unlocked = Str("yes")]}

\* save entries of the visitor
VisitorEntries ==
    {[NoFields EXCEPT !.earned = JsFalse],
     [NoFields EXCEPT !.earned = Num(1), !.unlock_time = Num(700)],
     [NoFields EXCEPT !.unlocked = JsTrue, !.unlocktime = Num(500)],
     [NoFields EXCEPT !.achieved = Num(1)]}

VisitorBasic == {[NoFields EXCEPT !.earned = JsTrue, !.earned_time = Num(2000)]}

VisitorFiles ==
    {NoVisitor}
    \cup {[fetch |-> "json", achievements |-> a, info |-> g] :
            a \in Mappings(VisitorBasic, VisitorEntries),
            g \in {NullInfo, Info(FALSE, <<>>, TRUE, <<"A">>, FALSE)}}
    \cup {[fetch |-> "json", achievements |-> a, info |-> NullInfo] : a \in Arrays(BasicLegacy, {})}

InitCompare ==
    /\ loadPath \in {"appIds", "data"}
    /\ \E a \in Mappings({[NoFields EXCEPT !.earned = JsTrue, !.earned_time = Num(1000)]}, OwnerEntries) :
          server = <<Game(IF loadPath = "data" THEN Num(440) ELSE Str("440"), "json", a, NullInfo)>>
    /\ i = 1
    /\ gamesData = <<>>
    /\ visitor \in VisitorFiles
    /\ ownData = NoOwnData
    /\ comparison = NoComparison
    /\ stats = NoStats
    /\ localStorage = EmptyStorage
    /\ dataServer = DataFile(1, "array", FALSE, FALSE)
    /\ load = IdleLoad
    /\ RestIdle

NextCompare ==
    \/ LoadGamesFromAppIds
    \/ LoadGamesFromData
    \/ LoadOwnGameData
    \/ CompareAchievements
    \/ GetComparisonStats

SpecCompare == InitCompare /\ [][NextCompare]_vars

----------------------------------------------------------------------------
(* loadGamesFromAppIds on a listing of several games *)

\* largest number of appIds in the listing
MaxGames == 2

\* the j-th appId of the listing
AppIdAt(j) == Str(ToString(439 + j))

ListedPayloads ==
    {ObjectOf(<<"A">>, <<[NoFields EXCEPT !.earned = JsTrue, !.earned_time = Num(1000)]>>),
     ArrayOf(<<[NoFields EXCEPT !.apiname = Str("A"), !.achieved = Num(1)]>>)}

ListedInfos ==
    {Info(FALSE, <<>>, FALSE, <<>>, TRUE),
     Info(TRUE, <<[key |-> "A", val |-> [NoFields EXCEPT !.name = Str("Title")]]>>, FALSE, <<>>, TRUE)}

\* the ways the files of the j-th game can answer
ListedGames(j) ==
    {GameFetched(AppIdAt(j), a, p, "ok", g) :
        a \in {"json", "db"}, p \in ListedPayloads, g \in ListedInfos}
    \cup {GameFetched(AppIdAt(j), a, p, f, g) :
        a \in {"json", "db"}, p \in ListedPayloads, f \in {"notfound", "error"},
        g \in {NullInfo, Info(FALSE, <<>>, FALSE, <<>>, TRUE)}}
    \cup {GameFetched(AppIdAt(j), a, EmptyObject, "notfound", NullInfo) : a \in {"none", "error"}}

InitAppIds ==
    /\ loadPath = "appIds"
    /\ \E n \in 1..MaxGames :
          /\ server \in [1..n -> UNION {ListedGames(j) : j \in 1..n}]
          /\ \A j \in 1..n : server[j] \in ListedGames(j)
    /\ i = 1
    /\ gamesData = <<>>
    /\ visitor = NoVisitor
    /\ ownData = NoOwnData
    /\ comparison = NoComparison
    /\ stats = NoStats
    /\ localStorage = EmptyStorage
    /\ dataServer = DataFile(1, "array", FALSE, FALSE)
    /\ load = IdleLoad
    /\ RestIdle

NextAppIds == LoadGamesFromAppIds

SpecAppIds == InitAppIds /\ [][NextAppIds]_vars

----------------------------------------------------------------------------
(* Successive page loads through loadGameDataWithCache *)

InitCache ==
    /\ server = <<>>
    /\ loadPath = "data"
    /\ i = 1
    /\ gamesData = <<>>
    /\ visitor = NoVisitor
    /\ ownData = NoOwnData
    /\ comparison = NoComparison
    /\ stats = NoStats
    /\ localStorage = EmptyStorage
    /\ dataServer \in DataFiles(1)
    /\ load = IdleLoad
    /\ RestIdle

NextCache ==
    \/ StartLoad
    \/ RangeResponse
    \/ FullResponse
    \/ ServerUpdate

SpecCache == InitCache /\ [][NextCache]_vars

----------------------------------------------------------------------------
(* A sequence of processGameData calls, appIds repeated *)

\* largest number of calls
MaxCalls == 3

\* appIds as the data file or the listing gives them: 440 and "440" are the
\* same key
CalledAppIds == {Num(440), Str("440"), Num(570)}

CalledPayloads ==
    {ObjectOf(<<"A", "B">>, <<[NoFields EXCEPT !.earned = JsTrue, !.earned_time = Num(1000)],
                              [NoFields EXCEPT !.earned = JsFalse]>>),
     ArrayOf(<<[NoFields EXCEPT !.apiname = Str("A"), !.achieved = Num(1), !.unlocktime = Num(500)],
               [NoFields EXCEPT !.apiname = Str("A"), !.achieved = Num(0)]>>)}

CalledInfos ==
    {NullInfo,
     Info(TRUE, <<[key |-> "B", val |-> NoFields], [key |-> "A", val |-> NoFields]>>, FALSE, <<>>, TRUE)}

CalledGames == {Game(a, "json", p, g) : a \in CalledAppIds, p \in CalledPayloads, g \in CalledInfos}

InitCalls ==
    /\ loadPath \in {"appIds", "data"}
    /\ \E n \in 1..MaxCalls : server \in [1..n -> CalledGames]
    /\ i = 1
    /\ gamesData = <<>>
    /\ visitor = NoVisitor
    /\ ownData = NoOwnData
    /\ comparison = NoComparison
    /\ stats = NoStats
    /\ localStorage = EmptyStorage
    /\ dataServer = DataFile(1, "array", FALSE, FALSE)
    /\ load = IdleLoad
    /\ RestIdle

NextCalls ==
    \/ LoadGamesFromAppIds
    \/ LoadGamesFromData

SpecCalls == InitCalls /\ [][NextCalls]_vars

----------------------------------------------------------------------------
(* One game-data list read by the hub and by the profile page *)

\* games of a list of two
HubListGames(appid) ==
    {Game(appid, "json", a, g) :
        a \in {ObjectOf(<<"A", "B">>, <<[NoFields EXCEPT !.earned = JsTrue],
                                        [NoFields EXCEPT !.earned = Num(1)]>>),
               ObjectOf(<<"A">>, <<[NoFields EXCEPT !.earned = JsFalse]>>)},
        g \in {NullInfo,
               Info(TRUE, <<[key |-> "A", val |-> NoFields], [key |-> "B", val |-> NoFields]>>,
                    TRUE, <<"B">>, TRUE),
               Info(TRUE, <<>>, TRUE, <<"A">>, TRUE)}}

InitHub ==
    /\ loadPath = "data"
    /\ \/ \E f \in GameFiles : server = <<Game(Num(440), "json", f[1], f[2])>>
       \/ \E g \in HubListGames(Num(440)), h \in HubListGames(Num(570)) : server = <<g, h>>
    /\ i = 1
    /\ gamesData = <<>>
    /\ visitor = NoVisitor
    /\ ownData = NoOwnData
    /\ comparison = NoComparison
    /\ stats = NoStats
    /\ localStorage = EmptyStorage
    /\ dataServer = DataFile(1, "array", FALSE, FALSE)
    /\ load = IdleLoad
    /\ RestIdle

NextHub ==
    \/ LoadGamesFromData
    \/ DisplayGames
    \/ LoadGameData

SpecHub == InitHub /\ [][NextHub]_vars

----------------------------------------------------------------------------
(* The detail view of a loaded page *)

DetailGame(appId) ==
    GameRecord(appId, ObjectOf(<<"A">>, <<[NoFields EXCEPT !.earned = JsTrue]>>), NullInfo)

InitDetail ==
    /\ server = <<>>
    /\ loadPath = "data"
    /\ i = 1
    /\ gamesData = <<DetailGame("440"), DetailGame("570")>>
    /\ visitor = NoVisitor
    /\ ownData = NoOwnData
    /\ comparison = NoComparison
    /\ stats = NoStats
    /\ localStorage = EmptyStorage
    /\ dataServer = DataFile(1, "array", FALSE, FALSE)
    /\ load = IdleLoad
    /\ person = NoPerson
    /\ summary = NoSummary
    /\ location \in [vs : Visitors, game : {""} \cup ShownAppIds]
    /\ currentGameData = NoGameData
    /\ detailView = HiddenDetail
    /\ calls = <<>>
    /\ comparisonCache = [k \in CacheKeys |-> "absent"]
    /\ session = NoSession
    /\ forksCache = NoForksCache
    /\ forksRun = IdleForksRun
    /\ pass = IdlePass

NextDetail ==
    \/ HandleDeepLink
    \/ ShowGameDetail
    \/ HideGameDetail
    \/ EnableCompareMode
    \/ CompleteLoad
    \/ DisableCompareMode

SpecDetail == InitDetail /\ [][NextDetail]_vars

----------------------------------------------------------------------------
(* A page load through loadGamesFromAppIds, then the page in use *)

\* the ways the files of the j-th game can answer
PassGames(j) ==
    {GameFetched(AppIdAt(j), a, ObjectOf(<<"A">>, <<[NoFields EXCEPT !.earned = JsTrue]>>),
                 "ok", Info(FALSE, <<>>, FALSE, <<>>, TRUE)) :
        a \in {"json", "db", "none", "error"}}

InitPass ==
    /\ loadPath = "appIds"
    /\ \E n \in 1..MaxGames :
          /\ server \in [1..n -> UNION {PassGames(j) : j \in 1..n}]
          /\ \A j \in 1..n : server[j] \in PassGames(j)
    /\ i = 1
    /\ gamesData = <<>>
    /\ visitor = NoVisitor
    /\ ownData = NoOwnData
    /\ comparison = NoComparison
    /\ stats = NoStats
    /\ localStorage = EmptyStorage
    /\ dataServer = DataFile(1, "array", FALSE, FALSE)
    /\ load = IdleLoad
    /\ person = NoPerson
    /\ summary = NoSummary
    /\ location \in {[vs |-> "", game |-> ""], [vs |-> "bob", game |-> "440"]}
    /\ currentGameData = NoGameData
    /\ detailView = HiddenDetail
    /\ calls = <<>>
    /\ comparisonCache = [k \in CacheKeys |-> "absent"]
    /\ session = NoSession
    /\ forksCache = NoForksCache
    /\ forksRun = IdleForksRun
    /\ pass = IdlePass

NextPass ==
    \/ StartPass
    \/ AchievementsResponse
    \/ DbResponse
    \/ InfoResponse
    \/ DisplayGames
    \/ HandleDeepLink
    \/ ShowGameDetail
    \/ HideGameDetail
    \/ EnableCompareMode
    \/ CompleteLoad
    \/ DisableCompareMode

SpecPass == InitPass /\ [][NextPass]_vars

----------------------------------------------------------------------------
(* Successive calls of fetchAllForks in one browser *)

InitForks ==
    /\ server = <<>>
    /\ loadPath = "data"
    /\ i = 1
    /\ gamesData = <<>>
    /\ visitor = NoVisitor
    /\ ownData = NoOwnData
    /\ comparison = NoComparison
    /\ stats = NoStats
    /\ localStorage = EmptyStorage
    /\ dataServer = DataFile(1, "array", FALSE, FALSE)
    /\ load = IdleLoad
    /\ RestIdle

NextForks ==
    \/ FetchAllForks
    \/ ForkPageResponse

SpecForks == InitForks /\ [][NextForks]_vars

----------------------------------------------------------------------------
(* init: loadGameDataWithCache, then loadGamesFromData on what it returned *)

\* the games list of the n-th version of game-data.json: n games, whose
\* save data differs from version to version
GamesOf(n) ==
    [j \in 1..n |->
        Game(Num(439 + j), "json",
             ObjectOf(<<"A">>, <<[NoFields EXCEPT !.earned = JsTrue, !.earned_time = Num(1000 * n)]>>),
             NullInfo)]

\* init reaches line 333 and calls loadGameDataWithCache; load.pc is
\* "aggregate" while loadGamesFromData runs and "failed" after the catch
InitLoad ==
    /\ \/ load.pc \in {"idle", "failed"}
       \/ load.pc = "aggregate" /\ Loaded
    /\ load' = [IdleLoad EXCEPT !.pc = "range",
                                !.cachedTimestamp = localStorage[CACHE_TIMESTAMP_KEY],
                                !.cachedGames = localStorage[CACHE_DATA_KEY],
                                !.startStorage = localStorage]
    /\ UNCHANGED <<localStorage, dataServer, viewVars, restVars>>

\* lines 333-352: the returned list goes to loadGamesFromData; a rejection
\* goes to the catch, which shows the error panel
InitContinue ==
    /\ load.pc = "done"
    /\ IF load.kind = "games"
       THEN /\ server' = GamesOf(load.games)
            /\ loadPath' = "data"
            /\ i' = 1
            /\ load' = [load EXCEPT !.pc = "aggregate"]
       ELSE /\ load' = [load EXCEPT !.pc = "failed"]
            /\ UNCHANGED <<server, loadPath, i>>
    /\ UNCHANGED <<gamesData, visitor, ownData, comparison, stats, localStorage, dataServer,
                   restVars>>

InitInit ==
    /\ server = <<>>
    /\ loadPath = "data"
    /\ i = 1
    /\ gamesData = <<>>
    /\ visitor = NoVisitor
    /\ ownData = NoOwnData
    /\ comparison = NoComparison
    /\ stats = NoStats
    /\ localStorage = EmptyStorage
    /\ dataServer \in DataFiles(1)
    /\ load = IdleLoad
    /\ RestIdle

NextInit ==
    \/ InitLoad
    \/ RangeResponse
    \/ FullResponse
    \/ InitContinue
    \/ LoadGamesFromData
    \/ ServerUpdate

SpecInit == InitInit /\ [][NextInit]_vars

----------------------------------------------------------------------------
(* What the properties talk about *)

\* position in server of the files the entry appId of gamesData was built from
SourceIndex(appId) ==
    CHOOSE j \in 1..Len(server) :
        /\ j < i
        /\ String(server[j].appid) = appId
        /\ server[j].achFetch \in {"json", "db"}
        /\ \A k \in (j + 1)..(i - 1) :
              String(server[k].appid) # appId \/ server[k].achFetch \notin {"json", "db"}

SourceOf(appId) == server[SourceIndex(appId)]

\* the user's save data as processGameData looks it up
SaveOf(appId) ==
    Unwrap(IF loadPath = "appIds" THEN ConvertLegacy(SourceOf(appId).achievements)
           ELSE SourceOf(appId).achievements)

\* the keys of props that are not in list, in order
KeysOutside(props, list) ==
    LET kept == SelectSeq(props, LAMBDA p : ~Includes(list, p.key))
    IN  [j \in 1..Len(kept) |-> kept[j].key]

ApiNames(achievements) == [j \in 1..Len(achievements) |-> achievements[j].apiname]

\* some game has been aggregated
Aggregated == Len(gamesData) > 0

----------------------------------------------------------------------------
(* C1 *)

\* the keyed mapping K of a legacy array: apiname -> {earned: achieved === 1,
\* earned_time: unlocktime or 0}, entries without apiname left out
KeyedForm(array) == Obj("object", FALSE, ConvertFrom(array.props, 1, <<>>))

\* C1: a game aggregated from a legacy array has the same canonical
\* achievement list as the same game aggregated from the keyed form of
\* that array, on the per-AppID path and on the combined-data path.
C1_FormatEquivalence ==
    \A g \in 1..Len(gamesData) :
        LET src == SourceOf(gamesData[g].appId)
        IN  IsArray(src.achievements) =>
                gamesData[g].achievements = BuildAchievements(KeyedForm(src.achievements), src.info)

----------------------------------------------------------------------------
(* C2 *)

\* C2: no achievement whose key is in the game's blacklist is in the
\* canonical list, in either mode, and the list has exactly as many records
\* as there are keys outside the blacklist (a blacklisted key is not counted).
C2_BlacklistExcluded ==
    \A g \in 1..Len(gamesData) :
        LET src == SourceOf(gamesData[g].appId)
            blacklist == BlacklistOf(src.info)
            achievements == gamesData[g].achievements
            keys == IF SchemaDriven(src.info) THEN src.info.achievements
                    ELSE SaveOf(gamesData[g].appId).props
        IN  /\ \A a \in 1..Len(achievements) : ~Includes(blacklist, achievements[a].apiname)
            /\ Len(achievements) = Len(KeysOutside(keys, blacklist))

\* a schema-driven game whose second blacklist entry is a schema key that
\* the user has unlocked, next to a schema key that is kept
C2_Witness ==
    /\ Aggregated
    /\ LET src == SourceOf(gamesData[1].appId)
       IN  /\ SchemaDriven(src.info)
           /\ BlacklistOf(src.info) = <<"B", "A">>
           /\ \E j \in 1..Len(src.info.achievements) : src.info.achievements[j].key = "A"
           /\ Has(SaveOf(gamesData[1].appId), "A")
           /\ Len(gamesData[1].achievements) = 1

----------------------------------------------------------------------------
(* C3 *)

\* C3: with a schema that is present but has no keys, the canonical list
\* has one record per non-blacklisted key of the save data.
C3_EmptySchemaIsSaveDriven ==
    \A g \in 1..Len(gamesData) :
        LET src == SourceOf(gamesData[g].appId)
        IN  (~src.info.isNull /\ src.info.hasAchievements /\ src.info.achievements = <<>>) =>
                ApiNames(gamesData[g].achievements)
                    = KeysOutside(SaveOf(gamesData[g].appId).props, BlacklistOf(src.info))

----------------------------------------------------------------------------
(* C4 *)

\* C4: unlocked is exactly true or false, and it is true if and only if
\* one of earned, unlocked, achieved of the user's entry is truthy.
C4_UnlockedIsBoolean ==
    \A g \in 1..Len(gamesData) :
        \A a \in 1..Len(gamesData[g].achievements) :
            LET ach == gamesData[g].achievements[a]
                save == SaveOf(gamesData[g].appId)
                has == Has(save, ach.apiname)
                userAch == IF has THEN Get(save, ach.apiname) ELSE NoFields
            IN  /\ ach.unlocked \in {JsTrue, JsFalse}
                /\ ach.unlocked = JsTrue <=>
                      (has /\ (Truthy(userAch.earned) \/ Truthy(userAch.unlocked)
                                  \/ Truthy(userAch.achieved)))

----------------------------------------------------------------------------
(* C5 *)

\* C5: in schema-driven mode the list has one record per schema key outside
\* the blacklist, in schema order; a key without save entry is locked with
\* unlocktime 0; rarity is the schema entry's percent when it has one.
C5_SchemaDriven ==
    \A g \in 1..Len(gamesData) :
        LET src == SourceOf(gamesData[g].appId)
            save == SaveOf(gamesData[g].appId)
            achievements == gamesData[g].achievements
        IN  SchemaDriven(src.info) =>
                /\ ApiNames(achievements) = KeysOutside(src.info.achievements, BlacklistOf(src.info))
                /\ \A a \in 1..Len(achievements) :
                      LET achInfo == src.info.achievements[IndexOf(src.info.achievements, achievements[a].apiname, 1)].val
                      IN  /\ ~Has(save, achievements[a].apiname) =>
                                (achievements[a].unlocked = JsFalse /\ achievements[a].unlocktime = Num(0))
                          /\ achInfo.percent # Undefined => achievements[a].rarity = achInfo.percent

----------------------------------------------------------------------------
(* C6 *)

\* C6 as stated: in save-driven mode rarity and group are null whatever the
\* save entry carries.
C6_NoEnrichment ==
    \A g \in 1..Len(gamesData) :
        ~SchemaDriven(SourceOf(gamesData[g].appId).info) =>
            \A a \in 1..Len(gamesData[g].achievements) :
                /\ gamesData[g].achievements[a].rarity = Null
                /\ gamesData[g].achievements[a].group = Null

\* C6, amended: in save-driven mode rarity is the save entry's own percent
\* when that is truthy and null otherwise, and group is the save entry's own
\* group when that is truthy and null otherwise.
C6_OwnFieldsOnly ==
    \A g \in 1..Len(gamesData) :
        ~SchemaDriven(SourceOf(gamesData[g].appId).info) =>
            \A a \in 1..Len(gamesData[g].achievements) :
                LET ach == gamesData[g].achievements[a]
                    entry == Get(SaveOf(gamesData[g].appId), ach.apiname)
                IN  /\ ach.rarity = IF Truthy(entry.percent) THEN entry.percent ELSE Null
                    /\ ach.group = IF Truthy(entry.group) THEN entry.group ELSE Null

\* a save-driven game with an entry that carries percent 5 and a group, next
\* to an entry that carries neither
C6_Witness ==
    /\ Aggregated
    /\ ~SchemaDriven(SourceOf(gamesData[1].appId).info)
    /\ \E a, b \in 1..Len(gamesData[1].achievements) :
          /\ gamesData[1].achievements[a].rarity = Num(5)
          /\ gamesData[1].achievements[a].group = Str("DLC")
          /\ gamesData[1].achievements[b].rarity = Null
          /\ gamesData[1].achievements[b].group = Null

----------------------------------------------------------------------------
(* C7 *)

\* C7: an achievement with unlocked = false has unlocktime 0.
C7_LockedHasNoTime ==
    \A g \in 1..Len(gamesData) :
        \A a \in 1..Len(gamesData[g].achievements) :
            gamesData[g].achievements[a].unlocked = JsFalse =>
                gamesData[g].achievements[a].unlocktime = Num(0)

----------------------------------------------------------------------------
(* C8 *)

\* C8: compareAchievements(game, null) is {hasData: false, comparison: []}
\* whatever the game's achievements are.
C8_NoDataOnNull ==
    (comparison.done /\ ownData.isNull) =>
        (comparison.hasData = FALSE /\ comparison.comparison = <<>>)

\* a comparison against null of a game that has achievements
C8_Witness ==
    /\ comparison.done
    /\ ownData.isNull
    /\ Len(MapGet(gamesData, comparison.appId).achievements) > 0

----------------------------------------------------------------------------
(* C9 *)

\* C9: every status is one of the four, and it is the one the table gives
\* for (theyHave, youHave); an achievement with unlocked = true whose key
\* the other user's data lacks is they-only.
C9_StatusTable ==
    \A r \in 1..Len(comparison.comparison) :
        LET rec == comparison.comparison[r]
            theyHave == TheyHave(rec)
            youHave == YouHave(ownData.achievementsData, rec.apiname)
        IN  /\ rec.status \in {"both-unlocked", "they-only", "you-only", "both-locked"}
            /\ (theyHave /\ youHave) => rec.status = "both-unlocked"
            /\ (theyHave /\ ~youHave) => rec.status = "they-only"
            /\ (~theyHave /\ youHave) => rec.status = "you-only"
            /\ (~theyHave /\ ~youHave) => rec.status = "both-locked"
            /\ (rec.unlocked = JsTrue /\ ~Has(ownData.achievementsData, rec.apiname)) =>
                   rec.status = "they-only"

\* a comparison with a they-only record for an unlocked achievement whose key
\* the visitor's data lacks, and with a you-only record
C9_Witness ==
    /\ comparison.done
    /\ \E a, b \in 1..Len(comparison.comparison) :
          /\ comparison.comparison[a].unlocked = JsTrue
          /\ ~Has(ownData.achievementsData, comparison.comparison[a].apiname)
          /\ comparison.comparison[a].status = "they-only"
          /\ comparison.comparison[b].status = "you-only"

----------------------------------------------------------------------------
(* C10 *)

\* C10: the four counts add up to total, total is the length of the list,
\* yourTotal = bothUnlocked + youOnly and theirTotal = bothUnlocked + theyOnly.
C10_StatsAddUp ==
    stats.done =>
        /\ stats.bothUnlocked + stats.youOnly + stats.theyOnly + stats.bothLocked = stats.total
        /\ stats.total = Len(comparison.comparison)
        /\ stats.yourTotal = stats.bothUnlocked + stats.youOnly
        /\ stats.theirTotal = stats.bothUnlocked + stats.theyOnly
        /\ stats.bothUnlocked = Cardinality({r \in 1..Len(comparison.comparison) :
                                     comparison.comparison[r].status = "both-unlocked"})

\* statistics of a list with a they-only record and no you-only record
C10_Witness ==
    /\ stats.done
    /\ stats.total = 2
    /\ stats.theyOnly = 1
    /\ stats.youOnly = 0
    /\ stats.bothUnlocked = 1

----------------------------------------------------------------------------
(* C11 *)

\* the unlock state of the other user's entry for key, by the alias chain of
\* the normalizer: earned, then unlocked, then achieved; absent is locked
AliasUnlocked(ownAchievements, key) ==
    /\ Has(ownAchievements, key)
    /\ Truthy(UnlockedOf(TRUE, Get(ownAchievements, key)))

\* C11: the other user counts as having an achievement exactly when the
\* alias chain earned / unlocked / achieved of their entry is truthy.
C11_AliasChainForOther ==
    \A r \in 1..Len(comparison.comparison) :
        LET rec == comparison.comparison[r]
        IN  (rec.status \in {"both-unlocked", "you-only"})
                <=> AliasUnlocked(ownData.achievementsData, rec.apiname)

----------------------------------------------------------------------------
(* C12 *)

\* the achievements of the compared game that the other user's blacklist keeps
KeptForComparison ==
    SelectSeq(MapGet(gamesData, comparison.appId).achievements,
              LAMBDA a : ~Includes(ownData.blacklist, a.apiname))

\* C12: with other-user data, the comparison has one record per achievement
\* of the reference game outside the other user's blacklist, in the
\* reference order, and each record carries the achievement's fields as is.
C12_OneRecordPerKept ==
    (comparison.done /\ comparison.hasData) =>
        /\ Len(comparison.comparison) = Len(KeptForComparison)
        /\ \A r \in 1..Len(comparison.comparison) :
              LET rec == comparison.comparison[r]
                  ach == KeptForComparison[r]
              IN  /\ rec.apiname = ach.apiname
                  /\ rec.name = ach.name
                  /\ rec.description = ach.description
                  /\ rec.hidden = ach.hidden
                  /\ rec.icon = ach.icon
                  /\ rec.icongray = ach.icongray
                  /\ rec.unlocked = ach.unlocked
                  /\ rec.unlocktime = ach.unlocktime
                  /\ rec.rarity = ach.rarity
                  /\ rec.group = ach.group

\* a comparison of a game with two achievements, one of them in the other
\* user's blacklist
C12_Witness ==
    /\ comparison.done
    /\ comparison.hasData
    /\ ownData.blacklist = <<"A">>
    /\ Len(MapGet(gamesData, comparison.appId).achievements) = 2
    /\ Len(comparison.comparison) = 1
    /\ comparison.comparison[1].apiname # "A"


----------------------------------------------------------------------------
(* The cache loader *)

\* the call has returned or thrown
LoadDone == load.pc = "done"

\* the call obtained a response body that is a list or an object with games
GotGames == load.payload.format \in {"array", "object"}

\* the call ended in the catch block: a request failed or the body was invalid
LoadFailed ==
    \/ load.full \in {"throw", "notok", "unreadable"}
    \/ load.payload.format = "invalid"

\* C13: when the range request answers 206 with a last_updated equal to the
\* cached timestamp and a cached games list exists, the call issues no full
\* fetch, writes nothing to the cache and returns the cached games list.
C13_UnchangedUsesCache ==
    (/\ LoadDone
     /\ load.range = "206"
     /\ load.serverTimestamp # ""
     /\ load.serverTimestamp = load.cachedTimestamp
     /\ load.cachedGames # "")
        => /\ load.requests = 1
           /\ load.full = ""
           /\ localStorage = load.startStorage
           /\ load.kind = "games"
           /\ Stringify(load.games) = load.cachedGames

C13_Witness ==
    /\ LoadDone
    /\ load.range = "206"
    /\ load.serverTimestamp = load.cachedTimestamp
    /\ load.cachedGames = Stringify(1)
    /\ load.games = 1

\* C14: when the range request is answered with status 200, the payload of
\* that response is used as the full data and no second request is issued;
\* on every path one call issues at most two requests.
C14_Status200IsFullData ==
    /\ load.requests <= 2
    /\ load.range = "200"
          => /\ LoadDone
             /\ load.requests = 1
             /\ load.full = ""
             /\ load.payload # NoFile
             /\ GotGames => /\ load.kind = "games"
                            /\ load.games = load.payload.version
                            /\ load.source = "network"

C14_Witness ==
    /\ load.range = "200"
    /\ load.kind = "games"
    /\ load.payload.format = "object"
    /\ load.requests = 1

\* C15: a full fetch is issued whenever the range request throws, returns a
\* status other than 200 or 206, returns 206 without an extractable
\* last_updated, or returns 206 with a last_updated different from the cached
\* timestamp or with no cache; a failure of the partial check alone never
\* makes the load fail.
C15_RefetchCases ==
    /\ (\/ load.range \in {"throw", "other"}
        \/ /\ load.range = "206"
           /\ \/ load.serverTimestamp = ""
              \/ load.serverTimestamp # load.cachedTimestamp
              \/ load.cachedTimestamp = ""
              \/ load.cachedGames = "")
          => (load.pc = "full" \/ load.full # "")
    /\ (/\ LoadDone
        /\ load.range \in {"throw", "other", "unreadable200"}
        /\ load.full = "ok"
        /\ GotGames)
          => /\ load.kind = "games"
             /\ load.games = load.payload.version

C15_Witness ==
    /\ LoadDone
    /\ load.range = "throw"
    /\ load.full = "ok"
    /\ load.kind = "games"
    /\ load.requests = 2

\* C16 as stated: after a successful full fetch a bare array is returned and
\* leaves both cache entries unchanged; an object {games, last_updated}
\* stores the timestamp and the games list under the keys of the cache
\* version and the username, and returns games.
C16_StoresPair ==
    (LoadDone /\ load.source = "network")
        => /\ load.kind = "games"
           /\ load.games = load.payload.version
           /\ load.payload.format = "array" => localStorage = load.startStorage
           /\ (load.payload.format = "object" /\ load.payload.stamped)
                 => /\ localStorage[TimestampKeyOf("v2", Username)]
                            = ToString(Stamp(load.payload.version))
                    /\ localStorage[DataKeyOf("v2", Username)]
                            = Stringify(load.payload.version)

\* C16 amended: the array case as stated; an object {games, last_updated}
\* is returned, changes no entry other than the two of the cache version and
\* the username, and when the browser accepts both writes these two hold the
\* timestamp and the games list.
C16_StoresPairWhenAccepted ==
    (LoadDone /\ load.source = "network")
        => /\ load.kind = "games"
           /\ load.games = load.payload.version
           /\ load.payload.format = "array" => localStorage = load.startStorage
           /\ (load.payload.format = "object" /\ load.payload.stamped)
                 => /\ \A k \in StorageKeys \ {TimestampKeyOf("v2", Username),
                                               DataKeyOf("v2", Username)} :
                            localStorage[k] = load.startStorage[k]
                    /\ load.write = "ok"
                          => /\ localStorage[TimestampKeyOf("v2", Username)]
                                     = ToString(Stamp(load.payload.version))
                             /\ localStorage[DataKeyOf("v2", Username)]
                                     = Stringify(load.payload.version)

C16_Witness ==
    /\ LoadDone
    /\ load.full = "ok"
    /\ load.payload.format = "object"
    /\ load.write = "ok"
    /\ localStorage[CACHE_DATA_KEY] = Stringify(2)
    /\ load.startStorage[CACHE_DATA_KEY] = Stringify(1)

\* C17: when the fetch fails and a cached dataset exists, the call returns
\* the cached games if and only if now minus the cached timestamp is inside
\* the window of one hour; otherwise, and when no cache exists, the failure
\* is propagated.
C17_FallbackWithinHour ==
    (LoadDone /\ LoadFailed)
        => LET cachedTimestamp == localStorage[CACHE_TIMESTAMP_KEY]
               cachedGames == localStorage[CACHE_DATA_KEY]
           IN  IF cachedTimestamp # "" /\ cachedGames # ""
               THEN /\ (load.kind = "games")
                          <=> (load.now - ParseInt(cachedTimestamp) < 3600)
                    /\ load.kind = "games"
                          => /\ Stringify(load.games) = cachedGames
                             /\ load.source = "fallback"
                    /\ load.kind # "games" => load.kind = "error"
               ELSE load.kind = "error"

C17_Witness ==
    /\ LoadDone
    /\ load.full = "throw"
    /\ load.source = "fallback"
    /\ load.now - ParseInt(localStorage[CACHE_TIMESTAMP_KEY]) = 3599

\* C18: after a cache write that failed for lack of space the call still
\* returns the fetched games, and no later load returns data older than what
\* the server reported to it.
C18_NoStaleAfterQuota ==
    /\ (LoadDone /\ load.write \in {"quota1", "quota2"})
          => (load.kind = "games" /\ load.games = load.payload.version)
    /\ (LoadDone /\ load.source = "check")
          => Stamp(load.games) >= ParseInt(load.serverTimestamp)

\* C19: in every state the stored games list is the one that arrived with
\* the stored timestamp, and the two entries are replaced together.
C19_PairConsistent ==
    LET cachedTimestamp == localStorage[CACHE_TIMESTAMP_KEY]
        cachedGames == localStorage[CACHE_DATA_KEY]
    IN  /\ (cachedTimestamp = "") <=> (cachedGames = "")
        /\ (cachedTimestamp # "" /\ cachedGames # "")
              => ParseInt(cachedTimestamp) = Stamp(Parse(cachedGames))

----------------------------------------------------------------------------
(* loadGamesFromAppIds *)

\* gamesData has an entry under the key appId
HasGame(appId) == MapIndex(gamesData, appId, 1) # 0

\* C20: the games collection holds an entry for exactly the appIds gone
\* through whose achievements.json, or else .db, was fetched; a failed
\* achievement fetch adds nothing and the loop goes on; a failed or missing
\* game-info.json does not skip the game, which gets the default metadata.
C20_ExactlyTheFetched ==
    /\ \A j \in 1..Len(server) :
          HasGame(String(server[j].appid))
              <=> (j < i /\ server[j].achFetch \in {"json", "db"})
    /\ Len(gamesData) = Cardinality({j \in 1..(i - 1) : server[j].achFetch \in {"json", "db"}})
    /\ \A j \in 1..(i - 1) :
          (server[j].achFetch \in {"json", "db"} /\ server[j].infoFetch \in {"notfound", "error"})
              => LET game == MapGet(gamesData, String(server[j].appid))
                 IN  /\ game.name = Str("Game " \o String(server[j].appid))
                     /\ game.icon = Str("")
                     /\ game.usesDb = JsFalse
                     /\ game.platform = Null

C20_Witness ==
    /\ Loaded
    /\ Len(server) = 2
    /\ server[1].achFetch = "error"
    /\ server[2].achFetch = "db"
    /\ server[2].infoFetch = "error"
    /\ Len(gamesData) = 1
    /\ gamesData[1].appId = "441"
    /\ gamesData[1].name = Str("Game 441")

----------------------------------------------------------------------------
(* init on game-data.json *)

\* C21: a fetched game-data.json that is neither a list nor an object with a
\* games list makes the load fail: the call does not return games, nothing
\* is aggregated from that load, and the games already in the collection
\* stay as they are.
C21_InvalidPayloadFails ==
    [][(load'.payload.format = "invalid")
          => (load'.kind # "games" /\ gamesData' = gamesData)]_vars

----------------------------------------------------------------------------
(* The games collection as a keyed collection *)

\* position in server of the first call made for appId
FirstCall(appId) == CHOOSE j \in 1..(i - 1) :
    /\ String(server[j].appid) = appId
    /\ \A k \in 1..(j - 1) : String(server[k].appid) # appId

\* position in server of the last call made for appId
LastCall(appId) == CHOOSE j \in 1..(i - 1) :
    /\ String(server[j].appid) = appId
    /\ \A k \in (j + 1)..(i - 1) : String(server[k].appid) # appId

\* what the last call for appId handed to processGameData
LastPayload(appId) ==
    LET g == server[LastCall(appId)]
    IN  IF loadPath = "appIds" THEN ConvertLegacy(g.achievements) ELSE g.achievements

\* C22: after any sequence of processGameData calls the collection has one
\* entry per distinct appId (as a string), each entry is the record built by
\* the last call for its appId, the entries are in order of first insertion,
\* and in each entry the apiname values are pairwise distinct.
C22_KeyedCollection ==
    /\ {gamesData[p].appId : p \in 1..Len(gamesData)}
            = {String(server[j].appid) : j \in 1..(i - 1)}
    /\ \A p, q \in 1..Len(gamesData) :
          /\ p # q => gamesData[p].appId # gamesData[q].appId
          /\ p < q => FirstCall(gamesData[p].appId) < FirstCall(gamesData[q].appId)
    /\ \A p \in 1..Len(gamesData) :
          LET game == gamesData[p]
          IN  /\ game = GameRecord(game.appId, LastPayload(game.appId),
                                   server[LastCall(game.appId)].info)
              /\ \A a, b \in 1..Len(game.achievements) :
                    a # b => game.achievements[a].apiname # game.achievements[b].apiname

C22_Witness ==
    /\ Loaded
    /\ Len(server) = 3
    /\ server[1].appid = Num(440)
    /\ server[2].appid = Num(570)
    /\ server[3].appid = Str("440")
    /\ server[1].info # server[3].info
    /\ IsArray(server[3].achievements)
    /\ Len(gamesData) = 2
    /\ gamesData[1].appId = "440"
    /\ Len(gamesData[1].achievements) > 0

----------------------------------------------------------------------------
(* The hub's figures *)

\* the hub read the games list of the file
HubRead == person.done /\ Len(person.counts) = Len(server)

\* the game has a schema with at least one key
HasSchemaKeys(g) == ~g.info.isNull /\ g.info.hasAchievements /\ Len(g.info.achievements) > 0

\* the keys the game's totals are made of, blacklisted ones left out
CountedKeys(g) ==
    SelectSeq(IF HasSchemaKeys(g)
              THEN [j \in 1..Len(g.info.achievements) |-> g.info.achievements[j].key]
              ELSE RawKeys(g.achievements),
              LAMBDA k : ~Includes(BlacklistOf(g.info), k))

\* C23: the hub counts a game as perfect only if it has a schema with at
\* least one key, at least one achievement that is not blacklisted, and as
\* many earned as counted; a game with no schema or an empty one is never
\* perfect, and blacklisted keys are left out of the game's totals.
C23_PerfectOnlyWithSchema ==
    HubRead =>
        /\ \A j \in 1..Len(server) :
              LET c == person.counts[j]
              IN  /\ c.perfect => /\ HasSchemaKeys(server[j])
                                  /\ c.totalCount > 0
                                  /\ c.earnedCount = c.totalCount
                  /\ c.totalCount = Len(CountedKeys(server[j]))
        /\ person.perfectGames =
              Cardinality({j \in 1..Len(server) : person.counts[j].perfect})

\* C29: for every game-data list the hub's earned and total figures equal
\* the totals the profile page shows for the same list with no search term.
C29_HubEqualsProfile ==
    (HubRead /\ summary.done)
        => /\ person.achievements = summary.totalUnlocked
           /\ person.totalAchievements = summary.totalAchievements

----------------------------------------------------------------------------
(* The comparison memo and the detail view *)

\* a call of loadOwnGameData was made after one for the same key had completed
LateCall == session.late.key # ""

C26_ComparisonOfCurrentGame ==
    /\ ~currentGameData.comparisonData.isNull
          => currentGameData.comparisonData.forApp = currentGameData.appId
    /\ (detailView.active /\ detailView.mode = "comparison"
           /\ ~detailView.comparisonData.isNull)
          => detailView.comparisonData.forApp = detailView.appId

\* C27: an inactive detail view is not made active by the completion of a
\* comparison load, and while compare mode stays off comparisonData stays
\* null.
C27_StaysClosed ==
    [][/\ (~detailView.active /\ detailView'.active) => Len(calls') >= Len(calls)
       /\ (/\ currentGameData.set
           /\ ~currentGameData.compareMode
           /\ currentGameData.comparisonData.isNull
           /\ ~currentGameData'.compareMode)
             => currentGameData'.comparisonData.isNull]_vars

\* C28: compare mode is on, and the visitor's data is fetched, only with a
\* visitor in the URL who differs from the page owner whatever the case of
\* the letters.
C28_CompareOnlyWithOtherVisitor ==
    (currentGameData.compareMode \/ session.fetches > 0)
        => /\ location.vs # ""
           /\ ToLowerCase(location.vs) # ToLowerCase(PageOwner)

----------------------------------------------------------------------------
(* The fork list *)

\* C30: fetchAllForks returns, and stores, only a fork list of the requested
\* owner/repo that came from a pagination run ended on an empty page; a run
\* cut short by a failed page is not cached; a cached list younger than 30
\* minutes is returned without any request.
C30_ForksOfRequestedRepo ==
    /\ (forksRun.pc = "done" /\ forksRun.kind = "list")
          => /\ forksRun.result.repo = forksRun.repo
             /\ forksRun.result.ended = "empty"
    /\ forksCache.present => forksCache.data.ended = "empty"
    /\ (forksRun.pc = "done" /\ forksRun.source = "cache")
          => (forksRun.requests = 0 /\ forksRun.age < 30 * 60 * 1000)
    /\ (forksRun.pc = "done" /\ forksRun.requests = 0) => forksRun.source = "cache"

----------------------------------------------------------------------------
(* The phases of a page load *)

\* a rendering or comparison pass has read the games collection
ReaderRan ==
    \/ summary.done
    \/ session.deepLinked
    \/ currentGameData.set
    \/ detailView.active
    \/ calls # <<>>

\* C25: the games collection is written only by the aggregation pass, no
\* rendering or comparison pass reads it while the pass is running, and
\* during the pass at most one fetch is in flight.
C25_PhaseSeparation ==
    /\ [](/\ pass.inFlight <= 1
          /\ ReaderRan => (Loaded /\ pass.step = "done" /\ pass.inFlight = 0))
    /\ [][gamesData' # gamesData => (pass.step = "info" /\ ~ReaderRan /\ ~ReaderRan')]_vars

C25_Witness ==
    /\ pass.step = "done"
    /\ Len(server) = 2
    /\ server[1].achFetch = "db"
    /\ Len(gamesData) = 2
    /\ summary.done
    /\ summary.totalGames = 2
    /\ detailView.active
    /\ calls # <<>>

====
